---- MODULE Spec2Model ----
(***************************************************************************)
(* Model of the dc-switcher activation engine (internal/service), its node *)
(* cache (internal/cache), the cluster repository (internal/repository),   *)
(* the coordination-store record and the startup reconciliation.           *)
(*                                                                         *)
(* The node state of every cluster lives in the cluster itself (nodes);    *)
(* the service reads it through a TTL cache (cache) and writes it with     *)
(* SetNodeDrain.  One action models one whole service call, with the       *)
(* failures of the external calls it makes drawn from a bounded set.       *)
(***************************************************************************)
EXTENDS Integers, Sequences, FiniteSets, TLC

----------------------------------------------------------------------------
(* Bounds *)

\* number of activation calls explored in one behaviour
MaxCalls == 2

\* number of external calls (node write, snapshot fetch, job evaluation,
\* store put) that fail in one behaviour
MaxFaults == 1

\* largest value of the heartbeat loop's consecutiveFailures explored
MaxCounter == 4

\* number of direct calls of a repository method explored in one behaviour
MaxRepoCalls == 1

----------------------------------------------------------------------------
(* Deployment: the configured clusters, their regions and their nodes *)

AllClusters == {"dcA", "dcB", "dcC"}

\* alphabetical order, as produced by sort.Strings
ClusterOrder == <<"dcA", "dcB", "dcC">>

Regions == {"us", "eu"}

RegionOf == [c \in AllClusters |-> IF c = "dcC" THEN "eu" ELSE "us"]

NodeIds == {"n1", "n2", "n3"}

\* order of the node list returned by the cluster
NodeOrder == <<"n1", "n2", "n3">>

\* the local datacenter of this instance (config my_datacenter)
myDatacenter == "dcA"

\* the sets of healthy clusters the repository may hold after construction
Deployments == {{"dcA", "dcB"}, {"dcA", "dcB", "dcC"}}

----------------------------------------------------------------------------
(* Node states *)

Node(d, e) == [drain |-> d, elig |-> e]

ReadyNode == Node(FALSE, TRUE)
DrainingNode == Node(TRUE, FALSE)
IneligibleNode == Node(FALSE, FALSE)
DrainingEligibleNode == Node(TRUE, TRUE)

\* model.Node.IsReady
IsReady(n) == ~n.drain /\ n.elig

\* node lists a cluster may hold when the service starts
InitProfiles ==
    { [n \in NodeIds |-> ReadyNode],
      [n \in NodeIds |-> DrainingNode],
      [n \in NodeIds |-> IF n = "n1" THEN ReadyNode
                         ELSE IF n = "n2" THEN IneligibleNode
                         ELSE DrainingEligibleNode] }

\* a clusterNodesInfo without nodes (skipped cluster, or fetch error)
EmptyNodes == <<>>

----------------------------------------------------------------------------
(* Failures of external calls *)

Fault(kind, c, n) == <<kind, c, n>>

FaultPoints ==
    {Fault("write", c, n) : c \in AllClusters, n \in NodeIds}
    \cup {Fault("fetch", c, "-") : c \in AllClusters}
    \cup {Fault("eval", c, "-") : c \in AllClusters}
    \cup {Fault("etcd", "-", "-")}

RECURSIVE FaultSetsUpTo(_)
FaultSetsUpTo(k) ==
    IF k = 0 THEN {{}}
    ELSE LET S == FaultSetsUpTo(k - 1)
         IN  S \cup {s \cup {p} : s \in S, p \in FaultPoints}

\* the failures among fs that a call touching only the clusters cs can meet
FaultsOn(fs, cs) == {f \in fs : \A p \in f : p[2] \in cs /\ p[1] # "eval"}

\* the failures that may still happen after nf failures
FaultSets(nf) == FaultSetsUpTo(MaxFaults - nf)

----------------------------------------------------------------------------
(* State *)

VARIABLES
    clusters,       \* nomadRepository.clusters: keys of the healthy clusters
    nodes,          \* node state held by each cluster: cluster -> id -> Node
    cache,          \* TTLCache: cluster -> <<>> (no entry) or <<snapshot>>
    record,         \* active-datacenter key: <<>> (absent) or <<record>>
    amDrained,      \* datacenterService.amDrained
    activeRegion,   \* healthcheck.Checker.activeRegion
    failureCounter, \* healthcheck.Checker.failureCounter
    reconciled,     \* startup reconciliation has run
    ncalls,         \* number of activation calls made
    nfaults,        \* number of failures of external calls so far
    call,           \* the last activation call: inputs, effects and result
    hb,             \* heartbeatLoop: consecutiveFailures and the tick in progress
    reading,        \* GetNodes calls between ListNodes and cache.Set
    last,           \* the last background step: inputs and effects
    nodeCache,      \* clusterMetadata.nodeCache: the nodes with an address
    pending,        \* handleFailure between its decision and its drain:
                    \* <<>> or <<[region, currentFailures]>>
    px,             \* a call of the parallel executor: its tasks, its
                    \* goroutines and the result slice
    repo,           \* NewNomadRepository: the configured clusters and the
                    \* map it has built from them
    stopHeartbeat   \* datacenterService.stopHeartbeat: "open" or "closed"

vars == <<clusters, nodes, cache, record, amDrained, activeRegion,
          failureCounter, reconciled, ncalls, nfaults, call, hb, reading,
          last, nodeCache, pending, px, repo, stopHeartbeat>>

NoCall ==
    [op |-> "none", target |-> "-", failed |-> FALSE,
     activated |-> "-", drained_nodes |-> 0, un_drained_nodes |-> 0,
     errors |-> <<>>, writes |-> {}, deleted |-> {}, fetchFailed |-> {},
     skipped |-> {}, evals |-> {}, put |-> FALSE, putFailed |-> FALSE,
     notified |-> FALSE, repeat |-> FALSE, steps |-> <<>>]

\* the construction of the repository is not looked at
NoConfig ==
    [clusters |-> <<>>, skip |-> FALSE, built |-> FALSE, err |-> FALSE,
     stored |-> {}, replaced |-> {}]

\* no call of the parallel executor in progress
NoExecution ==
    [op |-> "none", tasks |-> <<>>, maxConcurrent |-> 0, capacity |-> 0,
     spawned |-> 0, pc |-> <<>>, runs |-> <<>>, results |-> <<>>,
     semaphore |-> 0, wg |-> 0, peak |-> 0, returned |-> FALSE,
     out |-> <<>>]

----------------------------------------------------------------------------
\* no background step yet
NoStep ==
    [op |-> "none", readOk |-> FALSE, names |-> "-", age |-> 0,
     wasDrained |-> FALSE, failures |-> 0, put |-> "none",
     drainCalled |-> FALSE, drainErr |-> FALSE, writes |-> {},
     deleted |-> {}, fetchFailed |-> {}, err |-> FALSE, region |-> "-",
     streak |-> 0, calls |-> 0, central |-> "none", direct |-> "none",
     markEligible |-> FALSE, views |-> <<>>, regions |-> <<>>,
     missed |-> {}, synced |-> FALSE, probed |-> "-"]

\* heartbeatLoop before its first tick
IdleHeartbeat == [failures |-> 0, phase |-> "idle", info |-> <<>>, age |-> 0]

----------------------------------------------------------------------------
(* Cluster repository *)

InClusters(c) == c \in clusters

\* GetClusterNames: all keys, sorted
GetClusterNames == SelectSeq(ClusterOrder, InClusters)

\* a lookup that answers for every configured name
GetClusterRegion_NeverFails(c) == [err |-> FALSE, region |-> RegionOf[c]]

\* GetClusterRegion: err when the cluster is unknown
GetClusterRegion(c) ==
    IF c \in clusters THEN [err |-> FALSE, region |-> RegionOf[c]]
    ELSE [err |-> TRUE, region |-> ""]

\* the clusters of the region in reverse order
GetClustersByRegion_Reversed(r) ==
    LET InRegion(c) == c \in clusters /\ RegionOf[c] = r
        sorted == SelectSeq(ClusterOrder, InRegion)
    IN  [i \in 1..Len(sorted) |-> sorted[Len(sorted) + 1 - i]]

\* GetClustersByRegion: the clusters of the region, sorted
GetClustersByRegion(r) ==
    LET InRegion(c) == c \in clusters /\ RegionOf[c] = r
    IN  SelectSeq(ClusterOrder, InRegion)

\* alphabetical order, as produced by sort.Strings
RegionOrder == <<"eu", "us">>

HasClusters(r) == \E c \in clusters : RegionOf[c] = r

\* nomadRepository.GetAllRegions: the regions of the healthy clusters, sorted
GetAllRegions == SelectSeq(RegionOrder, HasClusters)

\* the node state a successful SetNodeDrain leaves: UpdateDrain with
\* markEligible = !drain
SetNodeDrain(drain) == Node(drain, ~drain)

----------------------------------------------------------------------------
(* Repository: drain of one node *)

\* a drain call that needs both the central and the direct call to succeed
DrainSucceeded_Both(central, direct) == central = "ok" /\ direct = "ok"

\* nomadRepository.SetNodeDrain: nil is returned when UpdateDrain succeeded
\* or, after its failure, the direct call did
DrainSucceeded(central, direct) == central = "ok" \/ direct = "ok"

\* nomadRepository.setNodeDrainDirect: the POST to the node's own address,
\* which needs an entry of the node in nodeCache
setNodeDrainDirect(c, n, directFails) ==
    IF n \notin nodeCache[c] THEN "noaddr"
    ELSE IF directFails THEN "failed"
    ELSE "ok"

\* nomadRepository.SetNodeDrain: the calls made and the result returned
SetNodeDrainCall(c, n, drain, centralFails, directFails) ==
    IF c \notin clusters
    THEN [err |-> TRUE, central |-> "none", direct |-> "none",
          markEligible |-> FALSE]
    ELSE LET central == IF centralFails THEN "failed" ELSE "ok"
             direct  == IF central = "ok" THEN "none"
                        ELSE setNodeDrainDirect(c, n, directFails)
         IN  [err |-> ~DrainSucceeded(central, direct),
              central |-> central, direct |-> direct,
              markEligible |-> ~drain]

\* a call of nomadRepository.SetNodeDrain; centralFails and directFails are
\* the failures of the two calls, when they are made
RepoSetNodeDrain(c, n, drain, centralFails, directFails) ==
    /\ last.calls < MaxRepoCalls
    /\ directFails => (centralFails /\ c \in clusters /\ n \in nodeCache[c])
    /\ centralFails => c \in clusters
    /\ LET r == SetNodeDrainCall(c, n, drain, centralFails, directFails)
       IN  /\ nodes' = IF r.err THEN nodes
                       ELSE [nodes EXCEPT
                               ![c][n] = Node(drain, r.markEligible)]
           /\ last' = [NoStep EXCEPT
                         !.op = "SetNodeDrain",
                         !.err = r.err,
                         !.central = r.central,
                         !.direct = r.direct,
                         !.markEligible = r.markEligible,
                         !.calls = last.calls + 1,
                         !.writes = {[cluster |-> c, node |-> n,
                                      drain |-> drain, ok |-> ~r.err]}]
    /\ UNCHANGED <<pending, px, repo, stopHeartbeat, nodeCache, clusters, cache, record, amDrained,
                   activeRegion, failureCounter, reconciled, ncalls,
                   nfaults, call, hb, reading>>

----------------------------------------------------------------------------
(* Node cache and snapshots *)

\* datacenterService.GetNodes: the cached list when the key is present,
\* otherwise ListNodes, stored in the cache on success.  entry is the cache
\* entry of the cluster after the call.
GetNodes(c, F) ==
    IF cache[c] # <<>>
    THEN [err |-> FALSE, nodes |-> cache[c][1], entry |-> cache[c]]
    ELSE IF c \notin clusters \/ Fault("fetch", c, "-") \in F
    THEN [err |-> TRUE, nodes |-> EmptyNodes, entry |-> <<>>]
    ELSE [err |-> FALSE, nodes |-> nodes[c], entry |-> <<nodes[c]>>]

----------------------------------------------------------------------------
(* Parallel executor *)

\* an executor that starts no task after the first one that fails
ParallelExecute_FailFast(order, tasks, failing) ==
    LET bad   == {i \in 1..Len(order) : order[i] \in failing}
        first == IF bad = {} THEN Len(order)
                 ELSE CHOOSE i \in bad : \A j \in bad : i <= j
    IN  {order[i] : i \in 1..first} \cap tasks

\* ParallelExecute: the tasks that are run.  order is the input slice, tasks
\* the set of its items, failing the items whose task returns an error:
\* every task runs, whatever the others return.
ParallelExecute(order, tasks, failing) == tasks

----------------------------------------------------------------------------
(* Activation engine: per-node and per-cluster steps *)

ErrorEntry(kind, c, n) == [kind |-> kind, cluster |-> c, node |-> n]

\* "cluster <C>, node <id>: <err>"
NodeError(c, n) == ErrorEntry("node", c, n)

\* "cluster <C>: failed to fetch nodes: <err>"
FetchError(c) == ErrorEntry("fetch", c, "-")

\* "failed to trigger job evaluations for <C>: <err>" / "datacenter <C>: <err>"
EvalError(c) == ErrorEntry("eval", c, "-")

\* "failed to write to etcd: <err>"
EtcdError == ErrorEntry("etcd", "-", "-")

\* every node is written, whatever its state
AlreadyCorrect_Never(node, shouldDrain) == FALSE

\* alreadyCorrect := (node.Drain == shouldDrain) &&
\*                   (nodeIsEligible == shouldBeEligible)
AlreadyCorrect(node, shouldDrain) ==
    LET shouldBeEligible == ~shouldDrain
    IN  (node.drain = shouldDrain) /\ (node.elig = shouldBeEligible)

\* the nodeResult and error of the task of one node
NodeTask(c, n, snapshot, shouldDrain, F) ==
    IF AlreadyCorrect(snapshot[n], shouldDrain)
    THEN [nodeID |-> "", success |-> TRUE, error |-> FALSE, wrote |-> FALSE]
    ELSE IF Fault("write", c, n) \in F
    THEN [nodeID |-> n, success |-> FALSE, error |-> TRUE, wrote |-> TRUE]
    ELSE [nodeID |-> n, success |-> TRUE, error |-> FALSE, wrote |-> TRUE]

\* counters that also count the results of the nodes left alone
CountsAsChange_NoIdCheck(nr) == ~nr.error /\ nr.success

\* a node result that updates the counters
CountsAsChange(nr) == ~nr.error /\ nr.success /\ nr.nodeID # ""

\* the loop body of the activations for one fetched cluster: compute the
\* changes, apply them in parallel, collect errors and counters, delete the
\* cache key
ApplyChanges(c, snapshot, shouldDrain, F) ==
    LET ids      == DOMAIN snapshot
        failing  == {n \in ids : NodeTask(c, n, snapshot, shouldDrain, F).error}
        ran      == ParallelExecute(NodeOrder, ids, failing)
        res      == [n \in ran |-> NodeTask(c, n, snapshot, shouldDrain, F)]
        Failed(n)  == n \in ran /\ res[n].error
        errIds   == SelectSeq(NodeOrder, Failed)
        written  == {n \in ran : res[n].wrote /\ ~res[n].error}
    IN  [errors  |-> [i \in 1..Len(errIds) |-> NodeError(c, errIds[i])],
         changed |-> Cardinality({n \in ran : CountsAsChange(res[n])}),
         writes  |-> {[cluster |-> c, node |-> n, drain |-> shouldDrain,
                       ok |-> ~res[n].error] : n \in {m \in ran : res[m].wrote}},
         nodes   |-> [n \in NodeIds |->
                        IF n \in written THEN SetNodeDrain(shouldDrain)
                        ELSE nodes[c][n]],
         entry   |-> <<>>,
         deleted |-> TRUE,
         fetchFailed |-> FALSE,
         skipped |-> FALSE]

\* a fetch error that is logged but not reported in errors[]
LeaveCluster_Silent(c, info) ==
    [errors  |-> <<>>,
     changed |-> 0,
     writes  |-> {},
     nodes   |-> nodes[c],
     entry   |-> info.entry,
     deleted |-> FALSE,
     fetchFailed |-> info.err,
     skipped |-> ~info.err]

\* a cluster the loop leaves alone: fetch error (one errors[] entry) or skip
LeaveCluster(c, info) ==
    [errors  |-> IF info.err THEN <<FetchError(c)>> ELSE <<>>,
     changed |-> 0,
     writes  |-> {},
     nodes   |-> nodes[c],
     entry   |-> info.entry,
     deleted |-> FALSE,
     fetchFailed |-> info.err,
     skipped |-> ~info.err]

RECURSIVE FlattenErrors(_, _)
FlattenErrors(names, P) ==
    IF names = <<>> THEN <<>>
    ELSE P[Head(names)].errors \o FlattenErrors(Tail(names), P)

RECURSIVE SumChanged(_, _, _)
SumChanged(names, P, pick) ==
    IF names = <<>> THEN 0
    ELSE (IF Head(names) \in pick THEN P[Head(names)].changed ELSE 0)
         + SumChanged(Tail(names), P, pick)

----------------------------------------------------------------------------
(* Activation engine: the two activations *)

\* a datacenter activation that skips the clusters of the other regions
\* instead of the siblings of the target
SkipSameRegion_Others(clusterRegion, targetRegion, clusterName, targetDC) ==
    clusterRegion # targetRegion /\ clusterName # targetDC

\* a datacenter activation that skips no cluster
SkipSameRegion_Never(clusterRegion, targetRegion, clusterName, targetDC) ==
    FALSE

\* ActivateDatacenter: "Skip datacenters in the same region (except target)"
SkipSameRegion(clusterRegion, targetRegion, clusterName, targetDC) ==
    clusterRegion = targetRegion /\ clusterName # targetDC

\* a datacenter activation that drains no cluster
ShouldDrainDatacenter_Never(clusterName, targetDC) == FALSE

\* ActivateDatacenter: shouldDrain := clusterName != targetDC
ShouldDrainDatacenter(clusterName, targetDC) == clusterName # targetDC

\* a region activation that drains the target region
ShouldDrainRegion_Inverted(clusterRegion, targetRegion) ==
    clusterRegion = targetRegion

\* ActivateRegion: shouldDrain := clusterRegion != targetRegion
ShouldDrainRegion(clusterRegion, targetRegion) == clusterRegion # targetRegion

\* ActivateDatacenter, fetch phase: the clusterNodesInfo of one cluster
FetchForDatacenter(c, targetDC, targetRegion, F) ==
    LET reg == GetClusterRegion(c)
    IN  IF reg.err
        THEN [clusterName |-> c, nodes |-> EmptyNodes, region |-> "",
              err |-> TRUE, entry |-> cache[c]]
        ELSE IF SkipSameRegion(reg.region, targetRegion, c, targetDC)
        THEN [clusterName |-> c, nodes |-> EmptyNodes, region |-> reg.region,
              err |-> FALSE, entry |-> cache[c]]
        ELSE LET g == GetNodes(c, F)
             IN  [clusterName |-> c, nodes |-> g.nodes, region |-> reg.region,
                  err |-> g.err, entry |-> g.entry]

\* ActivateRegion, fetch phase: the clusterNodesInfo of one cluster
FetchForRegion(c, F) ==
    LET reg == GetClusterRegion(c)
    IN  IF reg.err
        THEN [clusterName |-> c, nodes |-> EmptyNodes, region |-> "",
              err |-> TRUE, entry |-> cache[c]]
        ELSE LET g == GetNodes(c, F)
             IN  [clusterName |-> c, nodes |-> g.nodes, region |-> reg.region,
                  err |-> g.err, entry |-> g.entry]

\* ActivateDatacenter, processing loop body for one cluster
DatacenterCluster(c, targetDC, targetRegion, F) ==
    LET info == FetchForDatacenter(c, targetDC, targetRegion, F)
    IN  IF info.err THEN LeaveCluster(c, info)
        ELSE IF DOMAIN info.nodes = {} THEN LeaveCluster(c, info)
        ELSE ApplyChanges(c, info.nodes,
                          ShouldDrainDatacenter(c, targetDC), F)

\* ActivateRegion, processing loop body for one cluster
RegionCluster(c, targetRegion, F) ==
    LET info == FetchForRegion(c, F)
    IN  IF info.err THEN LeaveCluster(c, info)
        ELSE ApplyChanges(c, info.nodes,
                          ShouldDrainRegion(info.region, targetRegion), F)

\* the evaluation errors of the clusters in names, in order
RECURSIVE EvalErrors(_, _)
EvalErrors(names, F) ==
    IF names = <<>> THEN <<>>
    ELSE (IF Fault("eval", Head(names), "-") \in F
          THEN <<EvalError(Head(names))>> ELSE <<>>)
         \o EvalErrors(Tail(names), F)

SeqToSet(s) == {s[i] : i \in 1..Len(s)}

\* healthcheck.Checker.SetActiveRegion: the counters after the call
ResetCounters == [r \in Regions |-> 0]

\* a call without node-level or cluster-level failure
Clean(cl) ==
    /\ cl.op # "none"
    /\ ~cl.failed
    /\ cl.fetchFailed = {}
    /\ \A w \in cl.writes : w.ok

\* the call made is the one made last, and that one had no failure
Repeats(op, target) ==
    call.op = op /\ call.target = target /\ Clean(call)

\* one step of an activation, in the order the code runs them: the node
\* writes of one cluster (count of them), the deletion of one cache key, the
\* evaluation trigger of one cluster, the store put
Step(kind, c, count) == [kind |-> kind, cluster |-> c, count |-> count]

\* a processing loop that deletes the key of a cluster before its writes
RECURSIVE LoopSteps_DeleteFirst(_, _)
LoopSteps_DeleteFirst(names, P) ==
    IF names = <<>> THEN <<>>
    ELSE LET c == Head(names)
         IN  (IF P[c].deleted
              THEN <<Step("delete", c, 1),
                     Step("writes", c, Cardinality(P[c].writes))>>
              ELSE <<>>)
             \o LoopSteps_DeleteFirst(Tail(names), P)

\* the steps of the processing loop: for each cluster that is neither
\* skipped nor failed to fetch, its node writes (ParallelMap returns when
\* all of them have returned), then the deletion of its cache key
RECURSIVE LoopSteps(_, _)
LoopSteps(names, P) ==
    IF names = <<>> THEN <<>>
    ELSE LET c == Head(names)
         IN  (IF P[c].deleted
              THEN <<Step("writes", c, Cardinality(P[c].writes)),
                     Step("delete", c, 1)>>
              ELSE <<>>)
             \o LoopSteps(Tail(names), P)

\* the evaluation triggers, one per cluster of names, in order
EvalSteps(names) == [i \in 1..Len(names) |-> Step("evaluate", names[i], 1)]

\* The part common to both activations after the processing loop: job
\* evaluations when a node was un-drained, the store put, the local drained
\* flag, the watchdog notification and the result.
\*   P            per-cluster outcome of the processing loop
\*   drainSet     the clusters whose nodes are drained
\*   evalNames    the clusters whose jobs are re-evaluated
\*   recorded     the datacenter written to the store
\*   clearsFlag   whether a successful put sets amDrained to false
Finish(op, target, targetRegion, P, drainSet, evalNames, recorded, by, clearsFlag, F) ==
    LET names      == GetClusterNames
        drained    == SumChanged(names, P, drainSet)
        undrained  == SumChanged(names, P, clusters \ drainSet)
        evalRun    == undrained > 0
        evalErrs   == IF evalRun THEN EvalErrors(evalNames, F) ELSE <<>>
        putOk      == Fault("etcd", "-", "-") \notin F
        errs       == FlattenErrors(names, P) \o evalErrs
                      \o (IF putOk THEN <<>> ELSE <<EtcdError>>)
    IN  [nodes          |-> [c \in clusters |-> P[c].nodes],
         cache          |-> [c \in AllClusters |->
                               IF c \in clusters THEN P[c].entry
                               ELSE cache[c]],
         record         |-> IF putOk
                            THEN <<[datacenter |-> recorded,
                                    activated_by |-> by]>>
                            ELSE record,
         amDrained      |-> IF putOk /\ clearsFlag THEN FALSE ELSE amDrained,
         activeRegion   |-> targetRegion,
         failureCounter |-> ResetCounters,
         call           |->
            [op |-> op, target |-> target, failed |-> FALSE,
             activated |-> target,
             drained_nodes |-> drained, un_drained_nodes |-> undrained,
             errors |-> errs,
             writes |-> UNION {P[c].writes : c \in clusters},
             deleted |-> {c \in clusters : P[c].deleted},
             fetchFailed |-> {c \in clusters : P[c].fetchFailed},
             skipped |-> {c \in clusters : P[c].skipped},
             evals |-> IF evalRun THEN SeqToSet(evalNames) ELSE {},
             put |-> TRUE, putFailed |-> ~putOk, notified |-> TRUE,
             repeat |-> Repeats(op, target),
             steps |-> LoopSteps(names, P)
                       \o (IF evalRun THEN EvalSteps(evalNames) ELSE <<>>)
                       \o <<Step("put", recorded, 1)>>]]

\* the function f, computed once for all its arguments
Computed(f) == IF f = <<>> THEN <<>> ELSE f

\* an activation that returns an error before doing anything
NotFound(op, target, F) ==
    [nodes |-> nodes, cache |-> cache, record |-> record,
     amDrained |-> amDrained, activeRegion |-> activeRegion,
     failureCounter |-> failureCounter,
     call |-> [NoCall EXCEPT !.op = op, !.target = target,
                             !.failed = TRUE,
                             !.repeat = Repeats(op, target)]]

\* datacenterService.ActivateDatacenter
ActivateDatacenterOutcome(targetDC, F) ==
    LET reg == GetClusterRegion(targetDC)
    IN  IF reg.err THEN NotFound("ActivateDatacenter", targetDC, F)
        ELSE LET P == Computed([c \in clusters |->
                         DatacenterCluster(c, targetDC, reg.region, F)])
             IN  Finish("ActivateDatacenter", targetDC, reg.region, P,
                        {c \in clusters : ShouldDrainDatacenter(c, targetDC)},
                        <<targetDC>>, targetDC, "api", TRUE, F)

\* datacenterService.ActivateRegion
ActivateRegionOutcome(targetRegion, F) ==
    LET targetClusters == GetClustersByRegion(targetRegion)
    IN  IF Len(targetClusters) = 0
        THEN NotFound("ActivateRegion", targetRegion, F)
        ELSE LET P == Computed([c \in clusters |->
                                  RegionCluster(c, targetRegion, F)])
                 activeDatacenter == targetClusters[1]
             IN  Finish("ActivateRegion", targetRegion, targetRegion, P,
                        {c \in clusters :
                            ShouldDrainRegion(RegionOf[c], targetRegion)},
                        targetClusters, activeDatacenter, "api-region",
                        activeDatacenter = myDatacenter, F)

Apply(o) ==
    /\ nodes' = o.nodes
    /\ cache' = o.cache
    /\ record' = o.record
    /\ amDrained' = o.amDrained
    /\ activeRegion' = o.activeRegion
    /\ failureCounter' = o.failureCounter
    /\ call' = o.call

ActivateDatacenter(targetDC, F) ==
    /\ ncalls < MaxCalls
    /\ Apply(ActivateDatacenterOutcome(targetDC, F))
    /\ ncalls' = ncalls + 1
    /\ nfaults' = nfaults + Cardinality(F)
    /\ UNCHANGED <<pending, px, repo, stopHeartbeat, nodeCache, clusters, reconciled, hb, reading, last>>

ActivateRegion(targetRegion, F) ==
    /\ ncalls < MaxCalls
    /\ Apply(ActivateRegionOutcome(targetRegion, F))
    /\ ncalls' = ncalls + 1
    /\ nfaults' = nfaults + Cardinality(F)
    /\ UNCHANGED <<pending, px, repo, stopHeartbeat, nodeCache, clusters, reconciled, hb, reading, last>>

\* a read-only request (GET .../nodes): GetNodes and nothing else
ReadNodes(dc, fails) ==
    /\ cache' = [cache EXCEPT ![dc] =
                   GetNodes(dc, IF fails THEN {Fault("fetch", dc, "-")}
                                ELSE {}).entry]
    /\ UNCHANGED <<pending, px, repo, stopHeartbeat, nodeCache, clusters, nodes, record, amDrained, activeRegion,
                   failureCounter, reconciled, ncalls, nfaults, call, hb,
                   reading, last>>

\* datacenterService.GetNodes of a read-only request, up to the answer of
\* ListNodes: the key is not in the cache and the node list is fetched
ReadFetch(dc) ==
    /\ dc \in clusters
    /\ cache[dc] = <<>>
    /\ reading[dc] = <<>>
    /\ reading' = [reading EXCEPT ![dc] = <<nodes[dc]>>]
    /\ UNCHANGED <<pending, px, repo, stopHeartbeat, nodeCache, clusters, nodes, cache, record, amDrained, activeRegion,
                   failureCounter, reconciled, ncalls, nfaults, call, hb,
                   last>>

\* the rest of that GetNodes: cache.Set of the list fetched
ReadStore(dc) ==
    /\ reading[dc] # <<>>
    /\ cache' = [cache EXCEPT ![dc] = reading[dc]]
    /\ reading' = [reading EXCEPT ![dc] = <<>>]
    /\ UNCHANGED <<pending, px, repo, stopHeartbeat, nodeCache, clusters, nodes, record, amDrained, activeRegion,
                   failureCounter, reconciled, ncalls, nfaults, call, hb,
                   last>>

\* the TTL of a cache entry runs out
CacheExpire(dc) ==
    /\ cache[dc] # <<>>
    /\ cache' = [cache EXCEPT ![dc] = <<>>]
    /\ UNCHANGED <<pending, px, repo, stopHeartbeat, nodeCache, clusters, nodes, record, amDrained, activeRegion,
                   failureCounter, reconciled, ncalls, nfaults, call, hb,
                   reading, last>>

----------------------------------------------------------------------------
(* Startup reconciliation *)

\* heartbeat.stale_threshold, in minutes
StaleThreshold == 2

\* a store read that takes an absent key for an empty record
ReadActiveDatacenter_EmptyOk(readFails) ==
    [err  |-> readFails,
     info |-> IF record = <<>>
              THEN [datacenter |-> "", activated_by |-> ""]
              ELSE record[1]]

\* etcdClient.ReadActiveDatacenter: an error when the Get fails (readFails)
\* or returns no key-value pair, the stored record otherwise
ReadActiveDatacenter(readFails) ==
    [err  |-> readFails \/ record = <<>>,
     info |-> IF record = <<>>
              THEN [datacenter |-> "", activated_by |-> ""]
              ELSE record[1]]

\* the ages of the stored heartbeat that startup may observe
HeartbeatAges == (StaleThreshold - 1)..(StaleThreshold + 1)

\* ActiveDatacenter.IsStale
IsStale(age, threshold) == age > threshold

\* drainMyNodes, the loop over the node list: stops at the first failed write
RECURSIVE DrainLoop(_, _, _, _)
DrainLoop(ids, snapshot, F, written) ==
    IF ids = <<>> THEN [err |-> FALSE, written |-> written, failed |-> {}]
    ELSE LET n == Head(ids)
         IN  IF snapshot[n].drain \/ ~snapshot[n].elig
             THEN DrainLoop(Tail(ids), snapshot, F, written)
             ELSE IF Fault("write", myDatacenter, n) \in F
             THEN [err |-> TRUE, written |-> written, failed |-> {n}]
             ELSE DrainLoop(Tail(ids), snapshot, F, written \cup {n})

\* a drain of the local nodes that reports no error when a write failed
drainMyNodes_Silent(F) ==
    LET g == GetNodes(myDatacenter, F)
    IN  IF g.err
        THEN [err |-> TRUE, nodes |-> nodes, cache |-> cache,
              writes |-> {}, deleted |-> {}]
        ELSE LET r == DrainLoop(NodeOrder, g.nodes, F, {})
             IN  [err   |-> FALSE,
                  writes |-> {[cluster |-> myDatacenter, node |-> n,
                               drain |-> TRUE, ok |-> n \in r.written] :
                              n \in r.written \cup r.failed},
                  deleted |-> IF r.err THEN {} ELSE {myDatacenter},
                  nodes |-> [nodes EXCEPT ![myDatacenter] =
                               [n \in NodeIds |->
                                  IF n \in r.written THEN SetNodeDrain(TRUE)
                                  ELSE @[n]]],
                  cache |-> [cache EXCEPT ![myDatacenter] =
                               IF r.err THEN g.entry ELSE <<>>]]

\* datacenterService.drainMyNodes: the cache key is deleted only when the
\* loop ran to its end
drainMyNodes(F) ==
    LET g == GetNodes(myDatacenter, F)
    IN  IF g.err
        THEN [err |-> TRUE, nodes |-> nodes, cache |-> cache,
              writes |-> {}, deleted |-> {}]
        ELSE LET r == DrainLoop(NodeOrder, g.nodes, F, {})
             IN  [err   |-> r.err,
                  writes |-> {[cluster |-> myDatacenter, node |-> n,
                               drain |-> TRUE, ok |-> n \in r.written] :
                              n \in r.written \cup r.failed},
                  deleted |-> IF r.err THEN {} ELSE {myDatacenter},
                  nodes |-> [nodes EXCEPT ![myDatacenter] =
                               [n \in NodeIds |->
                                  IF n \in r.written THEN SetNodeDrain(TRUE)
                                  ELSE @[n]]],
                  cache |-> [cache EXCEPT ![myDatacenter] =
                               IF r.err THEN g.entry ELSE <<>>]]

\* datacenterService.PerformStartupReconciliation, run once when the process
\* starts: readFails is a failed store read, age the age of the heartbeat
PerformStartupReconciliation(readFails, age, F) ==
    /\ reconciled = "no"
    /\ ncalls = 0
    /\ \A c \in AllClusters : cache[c] = <<>>
    /\ LET rd      == ReadActiveDatacenter(readFails)
           readErr == rd.err
           resume  == /\ ~readErr
                      /\ rd.info.datacenter = myDatacenter
                      /\ ~IsStale(age, StaleThreshold)
                      /\ ~(age < StaleThreshold)
           fresh   == /\ ~readErr
                      /\ rd.info.datacenter = myDatacenter
                      /\ ~IsStale(age, StaleThreshold)
                      /\ age < StaleThreshold
           d       == drainMyNodes(F)
           step    == [NoStep EXCEPT
                         !.op = "startup",
                         !.readOk = ~readErr,
                         !.names = IF readErr THEN "-"
                                   ELSE rd.info.datacenter,
                         !.age = IF readErr THEN 0 ELSE age,
                         !.wasDrained = amDrained]
       IN  IF resume
           THEN /\ amDrained' = FALSE
                /\ reconciled' = "ok"
                /\ last' = step
                /\ UNCHANGED <<nodes, cache>>
           ELSE /\ nodes' = d.nodes
                /\ cache' = d.cache
                /\ amDrained' = IF d.err THEN amDrained ELSE TRUE
                /\ reconciled' = IF d.err \/ fresh THEN "error" ELSE "ok"
                /\ last' = [step EXCEPT !.drainCalled = TRUE,
                                        !.drainErr = d.err,
                                        !.writes = d.writes,
                                        !.deleted = d.deleted,
                                        !.err = d.err \/ fresh]
    /\ nfaults' = nfaults + Cardinality(F)
    /\ UNCHANGED <<pending, px, repo, stopHeartbeat, nodeCache, clusters, record, activeRegion, failureCounter, ncalls,
                   call, hb, reading>>

----------------------------------------------------------------------------
(* Heartbeat loop *)

\* heartbeat.max_failures
MaxFailures == 3

\* a loop that leaves its nodes alone when another datacenter is recorded
DrainsForPeer_Never(other, drained) == FALSE

\* heartbeatLoop, the record names another datacenter: the nodes are drained
\* unless the instance is marked drained already
DrainsForPeer(other, drained) == other /\ ~drained

\* heartbeatLoop without its check for a fresh heartbeat of a peer
FreshPeer_Ignored(age, drained) == FALSE

\* heartbeatLoop: a fresh heartbeat exists while this instance is drained
FreshPeer(age, drained) == age < StaleThreshold /\ drained

\* heartbeatLoop, first half of a tick: ReadActiveDatacenter and the two
\* checks that end the tick without a write.  readFails is a failed store
\* read, age the age of the heartbeat on the record read (StaleThreshold
\* when the tick does not look at it).
HeartbeatRead(readFails, age, F) ==
    /\ hb.phase = "idle"
    /\ reconciled # "no"
    /\ (record = <<>> \/ readFails \/ record[1].datacenter # myDatacenter)
          => age = StaleThreshold
    /\ record = <<>> => ~readFails
    /\ LET rd      == ReadActiveDatacenter(readFails)
           readErr == rd.err
           other   == ~readErr /\ rd.info.datacenter # myDatacenter
           drains  == DrainsForPeer(other, amDrained)
           peer    == ~readErr /\ ~other /\ FreshPeer(age, amDrained)
           d       == drainMyNodes(F)
           step    == [NoStep EXCEPT
                         !.op = "hbRead",
                         !.readOk = ~readErr,
                         !.names = IF readErr THEN "-"
                                   ELSE rd.info.datacenter,
                         !.age = IF readErr THEN 0 ELSE age,
                         !.wasDrained = amDrained]
       IN  /\ readErr => hb.failures < MaxCounter
           /\ ~drains => F = {}
           /\ IF readErr
              THEN /\ hb' = [hb EXCEPT !.failures = @ + 1]
                   /\ last' = [step EXCEPT !.failures = hb.failures + 1]
                   /\ UNCHANGED <<nodes, cache, amDrained>>
              ELSE IF other
              THEN /\ hb' = [hb EXCEPT !.failures = 0]
                   /\ IF drains
                      THEN /\ nodes' = d.nodes
                           /\ cache' = d.cache
                           /\ amDrained' = ~d.err
                           /\ last' = [step EXCEPT !.drainCalled = TRUE,
                                                   !.drainErr = d.err,
                                                   !.writes = d.writes,
                                                   !.deleted = d.deleted]
                      ELSE /\ last' = step
                           /\ UNCHANGED <<nodes, cache, amDrained>>
              ELSE IF peer
              THEN /\ last' = [step EXCEPT !.failures = hb.failures]
                   /\ UNCHANGED <<hb, nodes, cache, amDrained>>
              ELSE /\ hb' = [hb EXCEPT !.phase = "read", !.info = record,
                                       !.age = age]
                   /\ last' = [step EXCEPT !.failures = hb.failures,
                                           !.put = "pending"]
                   /\ UNCHANGED <<nodes, cache, amDrained>>
    /\ nfaults' = nfaults + Cardinality(F)
    /\ UNCHANGED <<pending, px, repo, stopHeartbeat, nodeCache, clusters, record, activeRegion, failureCounter,
                   reconciled, ncalls, call, reading>>

\* heartbeatLoop, second half of a tick: WriteActiveDatacenter of the record
\* read, with the failure counter and the fencing drain.  putFails is a
\* failed store write.
HeartbeatPut(putFails, F) ==
    /\ hb.phase = "read"
    /\ LET failures == hb.failures + 1
           drains   == putFails /\ failures >= MaxFailures /\ ~amDrained
           d        == drainMyNodes(F)
           step     == [NoStep EXCEPT
                          !.op = "hbPut",
                          !.readOk = TRUE,
                          !.names = hb.info[1].datacenter,
                          !.age = hb.age,
                          !.wasDrained = amDrained]
       IN  /\ putFails => hb.failures < MaxCounter
           /\ ~drains => F = {}
           /\ IF putFails
              THEN /\ hb' = [IdleHeartbeat EXCEPT !.failures = failures]
                   /\ record' = record
                   /\ IF drains
                      THEN /\ nodes' = d.nodes
                           /\ cache' = d.cache
                           /\ amDrained' = IF d.err THEN amDrained ELSE TRUE
                           /\ last' = [step EXCEPT !.failures = failures,
                                                   !.put = "failed",
                                                   !.drainCalled = TRUE,
                                                   !.drainErr = d.err,
                                                   !.writes = d.writes,
                                                   !.deleted = d.deleted]
                      ELSE /\ last' = [step EXCEPT !.failures = failures,
                                                   !.put = "failed"]
                           /\ UNCHANGED <<nodes, cache, amDrained>>
              ELSE /\ hb' = IdleHeartbeat
                   /\ record' = hb.info
                   /\ last' = [step EXCEPT !.put = "ok"]
                   /\ UNCHANGED <<nodes, cache, amDrained>>
    /\ nfaults' = nfaults + Cardinality(F)
    /\ UNCHANGED <<pending, px, repo, stopHeartbeat, nodeCache, clusters, activeRegion, failureCounter, reconciled,
                   ncalls, call, reading>>

----------------------------------------------------------------------------
(* Datacenter and region views *)

\* a count that leaves out the nodes that are neither draining nor eligible
RECURSIVE NodeCounts_DropIneligible(_, _)
NodeCounts_DropIneligible(ids, snapshot) ==
    IF ids = <<>> THEN [ready |-> 0, draining |-> 0]
    ELSE LET r == NodeCounts_DropIneligible(Tail(ids), snapshot)
             n == snapshot[Head(ids)]
         IN  IF n.drain THEN [r EXCEPT !.draining = @ + 1]
             ELSE IF n.elig THEN [r EXCEPT !.ready = @ + 1]
             ELSE r

\* getDatacenterInfo, the loop over the nodes: a node that is not draining
\* and not eligible is counted as draining
RECURSIVE NodeCounts(_, _)
NodeCounts(ids, snapshot) ==
    IF ids = <<>> THEN [ready |-> 0, draining |-> 0]
    ELSE LET r == NodeCounts(Tail(ids), snapshot)
             n == snapshot[Head(ids)]
         IN  IF n.drain THEN [r EXCEPT !.draining = @ + 1]
             ELSE IF n.elig THEN [r EXCEPT !.ready = @ + 1]
             ELSE [r EXCEPT !.draining = @ + 1]

\* getDatacenterInfo: the status computed from the counts
CountStatus(total, counts) ==
    IF counts.draining = total THEN "draining"
    ELSE IF counts.ready > 0 THEN "active"
    ELSE "draining"

\* the view the callers of getDatacenterInfo build when it returns an error
ErrorView(c) ==
    [name |-> c, status |-> "error", nodes_total |-> 0, nodes_ready |-> 0,
     nodes_draining |-> 0]

\* the view of a cluster whose node list is snapshot
ViewOf(c, counts) ==
    [name |-> c, status |-> CountStatus(Len(NodeOrder), counts),
     nodes_total |-> Len(NodeOrder), nodes_ready |-> counts.ready,
     nodes_draining |-> counts.draining]

\* datacenterService.getDatacenterInfo, with the error view of its callers
getDatacenterInfo(c, F) ==
    IF GetNodes(c, F).err THEN ErrorView(c)
    ELSE ViewOf(c, NodeCounts(NodeOrder, GetNodes(c, F).nodes))

\* the views of the clusters names
DatacenterViews(names, F) ==
    [i \in 1..Len(names) |-> getDatacenterInfo(names[i], F)]

\* the number of views with status st
StatusCount(views, st) ==
    Cardinality({i \in 1..Len(views) : views[i].status = st})

\* a region status that takes no notice of the members in error
CountedStatus_NoError(total, activeCount, drainingCount, errorCount) ==
    IF drainingCount = total THEN "draining"
    ELSE IF activeCount > 0 /\ drainingCount > 0 THEN "partial"
    ELSE "active"

\* getRegionInfo: the status of a region computed from the counts
CountedStatus(total, activeCount, drainingCount, errorCount) ==
    IF errorCount > 0 THEN "error"
    ELSE IF drainingCount = total THEN "draining"
    ELSE IF activeCount > 0 /\ drainingCount > 0 THEN "partial"
    ELSE "active"

\* the view of region r whose datacenters have the views views
RegionViewOf(r, views) ==
    [name |-> r, datacenters |-> views,
     status |-> CountedStatus(Len(views), StatusCount(views, "active"),
                              StatusCount(views, "draining"),
                              StatusCount(views, "error"))]

\* datacenterService.getRegionInfo
getRegionInfo(r, F) ==
    RegionViewOf(r, Computed(DatacenterViews(GetClustersByRegion(r), F)))

\* the snapshot fetches among fs that a view of the clusters cs can meet
FetchFaults(fs, cs) ==
    {f \in fs : \A p \in f :
        p[1] = "fetch" /\ p[2] \in cs /\ cache[p[2]] = <<>>}

\* the cache after GetNodes was called for the clusters cs
Filled(cs, F) ==
    [c \in AllClusters |-> IF c \in cs THEN GetNodes(c, F).entry
                           ELSE cache[c]]

\* a read-only request: the cache is filled and the answer logged
ViewRequest(op, cs, F, failed, views, regions) ==
    /\ cache' = Filled(cs, F)
    /\ last' = [NoStep EXCEPT !.op = op, !.err = failed,
                              !.fetchFailed = {c \in cs : GetNodes(c, F).err},
                              !.views = views, !.regions = regions]
    /\ nfaults' = nfaults + Cardinality(F)
    /\ UNCHANGED <<pending, px, repo, stopHeartbeat, nodeCache, clusters, nodes, record, amDrained,
                   activeRegion, failureCounter, reconciled, ncalls, call,
                   hb, reading>>

\* datacenterService.ListDatacenters
ListDatacenters(F) ==
    ViewRequest("ListDatacenters", clusters, F, FALSE,
                DatacenterViews(GetClusterNames, F), <<>>)

\* datacenterService.ListRegions
ListRegions(F) ==
    ViewRequest("ListRegions", clusters, F, FALSE, <<>>,
                [i \in 1..Len(GetAllRegions) |->
                    getRegionInfo(GetAllRegions[i], F)])

\* datacenterService.GetDatacentersByRegion
GetDatacentersByRegion(r, F) ==
    ViewRequest("GetDatacentersByRegion", SeqToSet(GetClustersByRegion(r)),
                F, Len(GetClustersByRegion(r)) = 0,
                DatacenterViews(GetClustersByRegion(r), F), <<>>)

\* datacenterService.GetRegionDatacenters
GetRegionDatacenters(r, F) ==
    ViewRequest("GetRegionDatacenters", SeqToSet(GetClustersByRegion(r)),
                F, FALSE, <<>>, <<getRegionInfo(r, F)>>)

----------------------------------------------------------------------------
(* Drain of a whole region *)

\* a drain of the region that writes to the ready nodes only
RegionDrainWrites_ReadyOnly(c, snapshot, F) ==
    {[cluster |-> c, node |-> n, drain |-> TRUE,
      ok |-> Fault("write", c, n) \notin F] :
        n \in {m \in NodeIds : IsReady(snapshot[m])}}

\* the writes DrainAllNodesInRegion attempts in cluster c: one for every
\* node whose snapshot shows drain = false
RegionDrainWrites(c, snapshot, F) ==
    {[cluster |-> c, node |-> n, drain |-> TRUE,
      ok |-> Fault("write", c, n) \notin F] :
        n \in {m \in NodeIds : ~snapshot[m].drain}}

\* DrainAllNodesInRegion once the snapshots g of the clusters are fetched
\* and the node writes made
RegionDrained(clusterNames, g, writes) ==
    [err |-> \E c \in clusterNames : g[c].err,
     fetchFailed |-> {c \in clusterNames : g[c].err},
     nodes |-> [c \in clusters |->
                  [n \in NodeIds |->
                     IF \E w \in writes :
                           w.cluster = c /\ w.node = n /\ w.ok
                     THEN SetNodeDrain(TRUE)
                     ELSE nodes[c][n]]],
     cache |-> [c \in AllClusters |->
                  IF c \in clusterNames THEN <<>> ELSE cache[c]],
     writes |-> writes,
     deleted |-> clusterNames]

\* the node writes of DrainAllNodesInRegion in the clusters fetched
RegionWrites(clusterNames, g, F) ==
    UNION {IF g[c].err THEN {} ELSE RegionDrainWrites(c, g[c].nodes, F) :
           c \in clusterNames}

\* DrainAllNodesInRegion for a region that has the clusters clusterNames
DrainClusters(clusterNames, g, F) ==
    RegionDrained(clusterNames, g, RegionWrites(clusterNames, g, F))

\* datacenterService.DrainAllNodesInRegion: a failed node write is logged
\* and skipped, a failed snapshot makes the call return an error, and the
\* cache key of every cluster of the region is deleted in both cases
DrainAllNodesInRegionOutcome(region, F) ==
    LET clusterNames == SeqToSet(GetClustersByRegion(region))
    IN  IF clusterNames = {}
        THEN [err |-> TRUE, nodes |-> nodes, cache |-> cache,
              writes |-> {}, deleted |-> {}, fetchFailed |-> {}]
        ELSE DrainClusters(clusterNames,
                           Computed([c \in clusterNames |-> GetNodes(c, F)]),
                           F)

\* the failures in F that a drain of the region can meet
MeetsRegionDrain(region, F) ==
    \A f \in F :
        /\ f[1] \in {"write", "fetch"}
        /\ f[2] \in SeqToSet(GetClustersByRegion(region))
        /\ f[1] = "fetch" => cache[f[2]] = <<>>
        /\ f[1] = "write" => /\ ~GetNodes(f[2], F).err
                             /\ ~GetNodes(f[2], F).nodes[f[3]].drain

\* a call of DatacenterService.DrainAllNodesInRegion
DrainAllNodesInRegion(region, F) ==
    /\ MeetsRegionDrain(region, F)
    /\ LET d == DrainAllNodesInRegionOutcome(region, F)
       IN  /\ nodes' = d.nodes
           /\ cache' = d.cache
           /\ last' = [NoStep EXCEPT !.op = "drainRegion",
                                     !.region = region,
                                     !.drainCalled = TRUE,
                                     !.drainErr = d.err,
                                     !.err = d.err,
                                     !.writes = d.writes,
                                     !.deleted = d.deleted,
                                     !.fetchFailed = d.fetchFailed,
                                     !.calls = ncalls]
    /\ nfaults' = nfaults + Cardinality(F)
    /\ UNCHANGED <<pending, px, repo, stopHeartbeat, nodeCache, clusters, record, amDrained, activeRegion,
                   failureCounter, reconciled, ncalls, call, hb, reading>>

----------------------------------------------------------------------------
(* Startup synchronisation of the regions *)

\* EnsureSingleActiveDatacenter, the grouping loop: for each region the
\* clusters whose snapshot was read and shows a ready node
activeDatacentersByRegion(g) ==
    [r \in Regions |->
        {c \in clusters :
            /\ RegionOf[c] = r
            /\ ~g[c].err
            /\ \E n \in NodeIds : IsReady(g[c].nodes[n])}]

\* a synchronisation that drains the region it keeps as well
drainRegions_All(keep, active) == {r \in Regions : active[r] # {}}

\* EnsureSingleActiveDatacenter: activeRegions[1:], the regions with an
\* active datacenter other than the one kept
drainRegions(keep, active) == {r \in Regions : active[r] # {} /\ r # keep}

\* EnsureSingleActiveDatacenter: the writes for the nodes collected in
\* nodesToDrain for cluster c, one for every ready node of the snapshot
nodesToDrain(c, snapshot, F) ==
    {[cluster |-> c, node |-> n, drain |-> TRUE,
      ok |-> Fault("write", c, n) \notin F] :
        n \in {m \in NodeIds : IsReady(snapshot[m])}}

\* EnsureSingleActiveDatacenter once the snapshots g are fetched: nothing
\* is written when at most one region has an active datacenter; otherwise
\* the ready nodes of the active datacenters of the other regions are
\* written and the cache key of every cluster with a successful write is
\* deleted.  nil is returned in every case.
SyncRegions(keep, g, F) ==
    LET active  == activeDatacentersByRegion(g)
        many    == Cardinality({r \in Regions : active[r] # {}}) > 1
        drained == IF many
                   THEN UNION {active[r] : r \in drainRegions(keep, active)}
                   ELSE {}
        writes  == UNION {nodesToDrain(c, g[c].nodes, F) : c \in drained}
        modifiedClusters == {w.cluster : w \in {v \in writes : v.ok}}
    IN  [many |-> many,
         candidates |-> {r \in Regions : active[r] # {}},
         fetchFailed |-> {c \in clusters : g[c].err},
         nodes |-> [c \in clusters |->
                      [n \in NodeIds |->
                         IF \E w \in writes :
                               w.cluster = c /\ w.node = n /\ w.ok
                         THEN SetNodeDrain(TRUE)
                         ELSE nodes[c][n]]],
         cache |-> [c \in AllClusters |->
                      IF c \in modifiedClusters THEN <<>>
                      ELSE IF c \in clusters THEN g[c].entry
                      ELSE cache[c]],
         writes |-> writes,
         deleted |-> modifiedClusters]

\* datacenterService.EnsureSingleActiveDatacenter; keep is the region the
\* iteration over the map of active regions yields first
EnsureSingleActiveDatacenterOutcome(keep, F) ==
    SyncRegions(keep, Computed([c \in clusters |-> GetNodes(c, F)]), F)

\* the failures in F that a startup synchronisation can meet
MeetsSync(d, F) ==
    \A f \in F :
        /\ f[1] \in {"write", "fetch"}
        /\ f[2] \in clusters
        /\ f[1] = "fetch" => cache[f[2]] = <<>>
        /\ f[1] = "write" =>
              \E w \in d.writes : w.cluster = f[2] /\ w.node = f[3]

\* a call of DatacenterService.EnsureSingleActiveDatacenter
EnsureSingleActiveDatacenter(keep, F) ==
    \E d \in {EnsureSingleActiveDatacenterOutcome(keep, F)} :
        /\ MeetsSync(d, F)
        /\ IF d.many THEN keep \in d.candidates ELSE keep = "-"
        /\ nodes' = d.nodes
        /\ cache' = d.cache
        /\ last' = [NoStep EXCEPT !.op = "ensure",
                                  !.region = keep,
                                  !.err = FALSE,
                                  !.writes = d.writes,
                                  !.deleted = d.deleted,
                                  !.fetchFailed = d.fetchFailed]
        /\ nfaults' = nfaults + Cardinality(F)
        /\ UNCHANGED <<pending, px, repo, stopHeartbeat, nodeCache, clusters, record, amDrained,
                       activeRegion, failureCounter, reconciled, ncalls,
                       call, hb, reading>>

----------------------------------------------------------------------------
(* Health watchdog *)

\* health_check.failed_threshold
FailedThreshold == 3

\* the answers of the leader call: a leader, an empty leader, an error
Leaders == {"leader", "empty", "error"}

\* datacenterService.getDatacenterInfo: the status of a cluster
DatacenterStatus(c, F) ==
    LET g == GetNodes(c, F)
    IN  IF g.err THEN "error"
        ELSE IF \E n \in NodeIds : IsReady(g.nodes[n]) THEN "active"
        ELSE "draining"

\* getRegionInfo: the status of a region whose datacenters have the
\* statuses sts
StatusOf(sts) ==
    IF "error" \in sts THEN "error"
    ELSE IF sts \subseteq {"draining"} THEN "draining"
    ELSE IF "draining" \in sts THEN "partial"
    ELSE "active"

\* datacenterService.getRegionInfo: the status of a region
RegionStatus(r, F) ==
    StatusOf({DatacenterStatus(c, F) : c \in SeqToSet(GetClustersByRegion(r))})

\* a detection that takes the last region that is active or partial
FirstRegion_Last(regions) ==
    IF regions = <<>> THEN "" ELSE regions[Len(regions)]

\* the first region of the list, none when the list is empty
FirstRegion(regions) == IF regions = <<>> THEN "" ELSE Head(regions)

\* Checker.detectActiveRegion: the first region that is active or partial
detectActiveRegion(F) ==
    LET Live(r) == RegionStatus(r, F) \in {"active", "partial"}
    IN  FirstRegion(SelectSeq(GetAllRegions, Live))

\* a watchdog that drains one failed probe early
ThresholdReached_Early(failures) == failures >= FailedThreshold - 1

\* a watchdog that drains one failed probe late
ThresholdReached_Late(failures) == failures > FailedThreshold

\* Checker.handleFailure: the counter has reached the threshold
ThresholdReached(failures) == failures >= FailedThreshold

\* the failures among fs that a check can meet at all: a snapshot fetch of
\* a cluster without cache entry and, when the probe fails, a node write
CheckFaults(fs, leader) ==
    {f \in fs : \A p \in f :
        /\ p[2] \in clusters
        /\ p[1] = "fetch" => cache[p[2]] = <<>>
        /\ p[1] = "write" => leader # "leader"}

\* the failures in F that a check monitoring region can meet: a snapshot
\* fetch of a cluster without cache entry, and a node write of the drain
MeetsCheck(region, drains, F) ==
    \A f \in F :
        /\ f[1] \in {"write", "fetch"}
        /\ f[2] \in clusters
        /\ f[1] = "fetch" => cache[f[2]] = <<>>
        /\ f[1] = "write" => /\ drains
                             /\ RegionOf[f[2]] = region
                             /\ ~GetNodes(f[2], F).err
                             /\ ~GetNodes(f[2], F).nodes[f[3]].drain

\* Checker.performCheck, one cycle of the watchdog: the active region is
\* detected again, the leader of its first datacenter is asked for, and a
\* failure is counted; leader is the answer of the leader call
performCheck(leader, F) ==
    pending = <<>> /\
    \E real \in {detectActiveRegion(F)} :
    \E filled \in {[c \in AllClusters |->
                      IF c \in clusters THEN GetNodes(c, F).entry
                      ELSE cache[c]]} :
    LET synced  == real # "" /\ real # activeRegion
        region  == IF synced THEN real ELSE activeRegion
        counter == IF synced THEN ResetCounters ELSE failureCounter
    IN  IF region = ""
        THEN /\ leader = "leader"
             /\ MeetsCheck(region, FALSE, F)
             /\ cache' = filled
             /\ last' = [NoStep EXCEPT
                           !.op = "probe", !.region = "",
                           !.missed = {c \in clusters : filled[c] = <<>>}]
             /\ nfaults' = nfaults + Cardinality(F)
             /\ UNCHANGED <<pending, px, repo, stopHeartbeat, nodeCache, clusters, nodes, record, amDrained,
                            activeRegion, failureCounter, reconciled,
                            ncalls, call, hb, reading>>
        ELSE \E d \in {DrainAllNodesInRegionOutcome(region, F)} :
             LET datacenters == GetClustersByRegion(region)
                 failed   == Len(datacenters) = 0 \/ leader # "leader"
                 failures == counter[region] + 1
                 drains   == failed /\ ThresholdReached(failures)
                 again    == /\ last.op = "probe"
                             /\ last.err
                             /\ last.region = region
                             /\ counter[region] = last.failures
                             /\ ~(last.drainCalled /\ ~last.drainErr)
             IN  /\ Len(datacenters) = 0 => leader = "leader"
                 /\ MeetsCheck(region, drains, F)
                 /\ activeRegion' = region
                 /\ failureCounter' =
                       [counter EXCEPT ![region] =
                           IF ~failed \/ (drains /\ ~d.err) THEN 0
                           ELSE failures]
                 /\ nodes' = IF drains THEN d.nodes ELSE nodes
                 /\ cache' = [c \in AllClusters |->
                                IF drains /\ c \in d.deleted THEN <<>>
                                ELSE filled[c]]
                 /\ last' = [NoStep EXCEPT
                               !.op = "probe",
                               !.region = region,
                               !.missed = {c \in clusters : filled[c] = <<>>},
                               !.synced = synced,
                               !.probed = IF datacenters = <<>> THEN "-"
                                          ELSE datacenters[1],
                               !.err = failed,
                               !.failures = IF failed THEN failures ELSE 0,
                               !.drainCalled = drains,
                               !.drainErr = drains /\ d.err,
                               !.writes = IF drains THEN d.writes ELSE {},
                               !.deleted = IF drains THEN d.deleted ELSE {},
                               !.fetchFailed = IF drains THEN d.fetchFailed
                                               ELSE {},
                               !.streak = IF ~failed THEN 0
                                          ELSE IF again THEN last.streak + 1
                                          ELSE 1]
                 /\ nfaults' = nfaults + Cardinality(F)
                 /\ UNCHANGED <<pending, px, repo, stopHeartbeat, nodeCache, clusters, record, amDrained, reconciled,
                                ncalls, call, hb, reading>>

\* Checker.performCheck whose probe fails, up to the decision of
\* handleFailure: under the lock the counter of the region is incremented
\* and copied to currentFailures, which has reached the threshold; the lock
\* is released before the drain
handleFailureDecide(leader) ==
    /\ pending = <<>>
    /\ \E real \in {detectActiveRegion({})} :
       \E filled \in {[c \in AllClusters |->
                         IF c \in clusters THEN GetNodes(c, {}).entry
                         ELSE cache[c]]} :
       LET synced   == real # "" /\ real # activeRegion
           region   == IF synced THEN real ELSE activeRegion
           counter  == IF synced THEN ResetCounters ELSE failureCounter
           failed   == \/ Len(GetClustersByRegion(region)) = 0
                       \/ leader # "leader"
           failures == counter[region] + 1
       IN  /\ region # ""
           /\ Len(GetClustersByRegion(region)) = 0 => leader = "leader"
           /\ failed
           /\ ThresholdReached(failures)
           /\ activeRegion' = region
           /\ failureCounter' = [counter EXCEPT ![region] = failures]
           /\ cache' = filled
           /\ pending' = <<[region |-> region, currentFailures |-> failures]>>
           /\ last' = [NoStep EXCEPT !.op = "decide",
                                     !.region = region,
                                     !.err = TRUE,
                                     !.failures = failures]
    /\ UNCHANGED <<px, repo, stopHeartbeat, nodeCache, clusters, nodes, record, amDrained, reconciled,
                   ncalls, nfaults, call, hb, reading>>

\* Checker.handleFailure from the decision on: drainRegion without the lock,
\* then, when it returned no error, the counter of the region set to 0
\* under the lock
handleFailureDrain ==
    /\ pending # <<>>
    /\ \E d \in {DrainAllNodesInRegionOutcome(pending[1].region, {})} :
          /\ nodes' = d.nodes
          /\ cache' = d.cache
          /\ failureCounter' =
                IF d.err THEN failureCounter
                ELSE [failureCounter EXCEPT ![pending[1].region] = 0]
          /\ last' = [NoStep EXCEPT !.op = "drain",
                                    !.region = pending[1].region,
                                    !.err = TRUE,
                                    !.failures = pending[1].currentFailures,
                                    !.drainCalled = TRUE,
                                    !.drainErr = d.err,
                                    !.writes = d.writes,
                                    !.deleted = d.deleted,
                                    !.fetchFailed = d.fetchFailed]
    /\ pending' = <<>>
    /\ UNCHANGED <<px, repo, stopHeartbeat, nodeCache, clusters, record, amDrained, activeRegion,
                   reconciled, ncalls, nfaults, call, hb, reading>>

----------------------------------------------------------------------------
(* Parallel executor: the goroutines of one call *)

\* the longest task list of a call
MaxTasks == 3

\* what a task returns: a value and no error, or an error
Outcome(v, e) == [value |-> v, err |-> e]
Outcomes == {Outcome("v", FALSE), Outcome("", TRUE)}

\* the items handed to ParallelMap and the function applied to them
Items == {"good", "bad"}
fn(item) == IF item = "bad" THEN Outcome("", TRUE) ELSE Outcome("v", FALSE)

\* slices are indexed from 0, as in the source
Slices(S) == UNION {[0..(n - 1) -> S] : n \in 0..MaxTasks}

\* the zero value of concurrent.Result
ZeroResult == [Value |-> "", Error |-> FALSE, Index |-> 0]

\* a semaphore that admits every task at once
Capacity_NoLimit(n, maxConcurrent) == n

\* ParallelExecuteWithLimit: the capacity of the semaphore channel
Capacity(n, maxConcurrent) == IF maxConcurrent <= 0 THEN n ELSE maxConcurrent

Limited == px.op = "ParallelExecuteWithLimit"

\* the goroutines that hold a slot of the semaphore, or run without one
Running == {i \in DOMAIN px.pc : px.pc[i] = "running"}

\* the state of a call when it enters its loop
Execution(op, tasks, maxConcurrent) ==
    [op |-> op, tasks |-> tasks, maxConcurrent |-> maxConcurrent,
     capacity |-> Capacity(Cardinality(DOMAIN tasks), maxConcurrent),
     spawned |-> 0,
     pc |-> [i \in DOMAIN tasks |-> "new"],
     runs |-> [i \in DOMAIN tasks |-> 0],
     results |-> [i \in DOMAIN tasks |-> ZeroResult],
     semaphore |-> 0, wg |-> 0, peak |-> 0, returned |-> FALSE,
     out |-> <<>>]

\* ParallelMap: one task per item, handed to ParallelExecute
MapTasks(items) == [i \in DOMAIN items |-> fn(items[i])]

\* one iteration of the loop over the tasks: wg.Add(1) and the go statement
Spawn ==
    /\ px.op # "none"
    /\ ~px.returned
    /\ px.spawned < Cardinality(DOMAIN px.tasks)
    /\ px' = [px EXCEPT !.spawned = @ + 1,
                        !.wg = @ + 1,
                        !.pc[px.spawned] = "started"]
    /\ UNCHANGED <<pending, repo, stopHeartbeat, nodeCache, clusters, nodes, cache, record,
                   amDrained, activeRegion, failureCounter, reconciled,
                   ncalls, nfaults, call, hb, reading, last>>

\* goroutine index: the semaphore is acquired, when the call has one, and
\* the task is called
Begin(index) ==
    /\ index \in DOMAIN px.pc
    /\ px.pc[index] = "started"
    /\ Limited => px.semaphore < px.capacity
    /\ px' = [px EXCEPT !.pc[index] = "running",
                        !.runs[index] = @ + 1,
                        !.semaphore = IF Limited THEN @ + 1 ELSE @,
                        !.peak = IF Cardinality(Running) + 1 > @
                                 THEN Cardinality(Running) + 1 ELSE @]
    /\ UNCHANGED <<pending, repo, stopHeartbeat, nodeCache, clusters, nodes, cache, record,
                   amDrained, activeRegion, failureCounter, reconciled,
                   ncalls, nfaults, call, hb, reading, last>>

\* goroutine index: the task returns, its result is stored at its index,
\* and the deferred calls release the semaphore and call wg.Done
End(index) ==
    /\ index \in DOMAIN px.pc
    /\ px.pc[index] = "running"
    /\ px' = [px EXCEPT !.pc[index] = "done",
                        !.results[index] =
                            [Value |-> px.tasks[index].value,
                             Error |-> px.tasks[index].err,
                             Index |-> index],
                        !.semaphore = IF Limited THEN @ - 1 ELSE @,
                        !.wg = @ - 1]
    /\ UNCHANGED <<pending, repo, stopHeartbeat, nodeCache, clusters, nodes, cache, record,
                   amDrained, activeRegion, failureCounter, reconciled,
                   ncalls, nfaults, call, hb, reading, last>>

\* wg.Wait returns after the loop, when the counter is zero, and the result
\* slice is returned
Return ==
    /\ px.op # "none"
    /\ ~px.returned
    /\ px.spawned = Cardinality(DOMAIN px.tasks)
    /\ px.wg = 0
    /\ px' = [px EXCEPT !.returned = TRUE, !.out = px.results]
    /\ UNCHANGED <<pending, repo, stopHeartbeat, nodeCache, clusters, nodes, cache, record,
                   amDrained, activeRegion, failureCounter, reconciled,
                   ncalls, nfaults, call, hb, reading, last>>

----------------------------------------------------------------------------
(* Construction of the repository *)

\* the longest list of configured clusters
MaxClusters == 3

\* the name and the region chosen for a configured cluster, from the
\* configuration or detected, and the answer of its health check
ChosenNames == {"dc", "dc-us"}
ClusterConfigs == [name : ChosenNames, region : Regions, healthy : BOOLEAN]

\* Config.Validate: at least one cluster is configured
Configs == UNION {[1..n -> ClusterConfigs] : n \in 1..MaxClusters}

\* a key that is the chosen name in every case
clusterKey_NameOnly(name, region, keys) == name

\* NewNomadRepository: the key of a cluster, "<name>-<region>" when the
\* chosen name is a key of the map already
clusterKey(name, region, keys) ==
    IF name \in keys THEN name \o "-" \o region ELSE name

\* NewNomadRepository, the loop over cfg.Clusters from index i on: an
\* unhealthy cluster is skipped or ends the construction with an error, a
\* healthy one is assigned to its key, whatever the map holds under it
RECURSIVE BuildClusters(_, _, _, _)
BuildClusters(cfg, skip, i, acc) ==
    IF i > Len(cfg) THEN acc
    ELSE IF ~cfg[i].healthy
    THEN IF skip THEN BuildClusters(cfg, skip, i + 1, acc)
         ELSE [acc EXCEPT !.err = TRUE]
    ELSE LET key == clusterKey(cfg[i].name, cfg[i].region,
                               {e.key : e \in acc.stored})
         IN  BuildClusters(cfg, skip, i + 1,
                 [acc EXCEPT
                    !.stored = {e \in @ : e.key # key}
                                  \cup {[key |-> key, index |-> i,
                                         region |-> cfg[i].region]},
                    !.replaced = @ \cup {e.index : e \in
                                     {d \in acc.stored : d.key = key}}])

\* NewNomadRepository: an error also when no cluster is healthy
NewNomadRepositoryOutcome(cfg, skip) ==
    LET r == BuildClusters(cfg, skip, 1,
                           [err |-> FALSE, stored |-> {}, replaced |-> {}])
    IN  IF r.err \/ r.stored = {}
        THEN [err |-> TRUE, stored |-> {}, replaced |-> {}]
        ELSE r

\* the call of NewNomadRepository in main
NewNomadRepository ==
    /\ repo.clusters # <<>>
    /\ ~repo.built
    /\ \E r \in {NewNomadRepositoryOutcome(repo.clusters, repo.skip)} :
          repo' = [repo EXCEPT !.built = TRUE,
                               !.err = r.err,
                               !.stored = r.stored,
                               !.replaced = r.replaced]
    /\ UNCHANGED <<pending, px, stopHeartbeat, nodeCache, clusters, nodes, cache, record,
                   amDrained, activeRegion, failureCounter, reconciled,
                   ncalls, nfaults, call, hb, reading, last>>

----------------------------------------------------------------------------
(* Heartbeat loop: the stop signal *)

\* a loop whose select never takes the stop case
StopReady_Never(ch) == FALSE

\* heartbeatLoop, case <-s.stopHeartbeat: ready once the channel is closed
StopReady(ch) == ch = "closed"

\* datacenterService.StopHeartbeat: close(s.stopHeartbeat)
StopHeartbeat ==
    /\ stopHeartbeat = "open"
    /\ stopHeartbeat' = "closed"
    /\ UNCHANGED <<pending, px, repo, nodeCache, clusters, nodes, cache,
                   record, amDrained, activeRegion, failureCounter,
                   reconciled, ncalls, nfaults, call, hb, reading, last>>

\* heartbeatLoop, the select takes the stop case and the loop returns; the
\* select is reached between two ticks only
HeartbeatExit ==
    /\ hb.phase = "idle"
    /\ reconciled # "no"
    /\ StopReady(stopHeartbeat)
    /\ hb' = [hb EXCEPT !.phase = "stopped"]
    /\ UNCHANGED <<pending, px, repo, stopHeartbeat, nodeCache, clusters, nodes, cache,
                   record, amDrained, activeRegion, failureCounter,
                   reconciled, ncalls, nfaults, call, reading, last>>

----------------------------------------------------------------------------
(* Heartbeat loop: a tick beside a request *)

\* heartbeatLoop, a tick as far as the return of ReadActiveDatacenter with a
\* record that names another datacenter; the loop holds no lock, so that a
\* request of the API may run before the tick goes on
HeartbeatFetch ==
    /\ hb.phase = "idle"
    /\ reconciled # "no"
    /\ ~ReadActiveDatacenter(FALSE).err
    /\ ReadActiveDatacenter(FALSE).info.datacenter # myDatacenter
    /\ hb' = [hb EXCEPT !.phase = "fetched", !.info = record]
    /\ UNCHANGED <<pending, px, repo, stopHeartbeat, nodeCache, clusters,
                   nodes, cache, record, amDrained, activeRegion,
                   failureCounter, reconciled, ncalls, nfaults, call,
                   reading, last>>

\* heartbeatLoop, the rest of that tick: the name on the record fetched is
\* compared with the local datacenter, the drained flag is read as it is
\* now, the local nodes are drained and the flag is set
HeartbeatReact(F) ==
    /\ hb.phase = "fetched"
    /\ LET drains == DrainsForPeer(hb.info[1].datacenter # myDatacenter,
                                   amDrained)
           d      == drainMyNodes(F)
           step   == [NoStep EXCEPT
                        !.op = "hbReact",
                        !.readOk = TRUE,
                        !.names = hb.info[1].datacenter,
                        !.wasDrained = amDrained,
                        !.calls = ncalls]
       IN  /\ ~drains => F = {}
           /\ hb' = [IdleHeartbeat EXCEPT !.failures = 0]
           /\ IF drains
              THEN /\ nodes' = d.nodes
                   /\ cache' = d.cache
                   /\ amDrained' = IF d.err THEN amDrained ELSE TRUE
                   /\ last' = [step EXCEPT !.drainCalled = TRUE,
                                           !.drainErr = d.err,
                                           !.writes = d.writes,
                                           !.deleted = d.deleted]
              ELSE /\ last' = step
                   /\ UNCHANGED <<nodes, cache, amDrained>>
    /\ nfaults' = nfaults + Cardinality(F)
    /\ UNCHANGED <<pending, px, repo, stopHeartbeat, nodeCache, clusters,
                   record, activeRegion, failureCounter, reconciled, ncalls,
                   call, reading>>

----------------------------------------------------------------------------
(* Specifications *)

ActiveRecord(dc, by) == <<[datacenter |-> dc, activated_by |-> by]>>

\* the state after construction, with one of the stored records recs
InitWith(recs) ==
    /\ clusters \in Deployments
    /\ \E p \in InitProfiles : nodes = [c \in clusters |-> p]
    /\ cache = [c \in AllClusters |-> <<>>]
    /\ record \in recs
    /\ amDrained = FALSE
    /\ activeRegion = ""
    /\ failureCounter = ResetCounters
    /\ reconciled = "no"
    /\ ncalls = 0
    /\ nfaults = 0
    /\ call = NoCall
    /\ hb = IdleHeartbeat
    /\ reading = [c \in AllClusters |-> <<>>]
    /\ last = NoStep
    /\ nodeCache = [c \in AllClusters |-> NodeIds]
    /\ pending = <<>>
    /\ stopHeartbeat = "open"
    /\ repo = NoConfig
    /\ px = NoExecution

\* the store holds no record before the first activation
Init == InitWith({<<>>})

\* the store may hold the record of an earlier run of the service
InitStartup ==
    InitWith({<<>>, ActiveRecord("dcA", "api"), ActiveRecord("dcB", "api")})

\* the requests of the HTTP API and the expiry of cache entries
Next ==
    \/ \E dc \in AllClusters, F \in FaultSets(nfaults) :
          ActivateDatacenter(dc, F)
    \/ \E r \in Regions, F \in FaultSets(nfaults) : ActivateRegion(r, F)
    \/ \E dc \in AllClusters, fails \in BOOLEAN : ReadNodes(dc, fails)
    \/ \E dc \in AllClusters : CacheExpire(dc)

Spec == Init /\ [][Next]_vars

\* the activation requests, those of a datacenter with failing calls, and
\* read-only requests that fill the cache
NextActivation ==
    \/ \E dc \in AllClusters, F \in FaultSets(nfaults) :
          ActivateDatacenter(dc, F)
    \/ \E r \in Regions : ActivateRegion(r, {})
    \/ \E dc \in AllClusters : ReadNodes(dc, FALSE)

SpecActivation == Init /\ [][NextActivation]_vars

\* the same, preceded by the startup reconciliation
NextStartup ==
    \/ Next
    \/ \E readFails \in BOOLEAN, age \in HeartbeatAges,
          F \in FaultSets(nfaults) :
          PerformStartupReconciliation(readFails, age, F)

SpecStartup == InitStartup /\ [][NextStartup]_vars

\* the heartbeat loop running after the reconciliation, with datacenter
\* activation requests whose calls all succeed
NextHeartbeat ==
    \/ \E dc \in AllClusters : ActivateDatacenter(dc, {})
    \/ \E dc \in AllClusters : CacheExpire(dc)
    \/ \E readFails \in BOOLEAN, age \in HeartbeatAges,
          F \in FaultsOn(FaultSets(nfaults), {myDatacenter}) :
          PerformStartupReconciliation(readFails, age, F)
    \/ \E readFails \in BOOLEAN, age \in HeartbeatAges,
          F \in FaultsOn(FaultSets(nfaults), {myDatacenter}) :
          HeartbeatRead(readFails, age, F)
    \/ \E putFails \in BOOLEAN,
          F \in FaultsOn(FaultSets(nfaults), {myDatacenter}) :
          HeartbeatPut(putFails, F)

\* the deployment with both regions; the store may hold a record
InitHeartbeat == InitStartup /\ clusters = AllClusters

SpecHeartbeat == InitHeartbeat /\ [][NextHeartbeat]_vars

\* one firing of the ticker of the heartbeat loop: either half of a tick
HeartbeatTick ==
    \/ \E readFails \in BOOLEAN, age \in HeartbeatAges,
          F \in FaultsOn(FaultSets(nfaults), {myDatacenter}) :
          HeartbeatRead(readFails, age, F)
    \/ \E putFails \in BOOLEAN,
          F \in FaultsOn(FaultSets(nfaults), {myDatacenter}) :
          HeartbeatPut(putFails, F)

\* the heartbeat loop with its ticker: as long as the loop runs the ticker
\* fires again after update_interval, so a tick that stays possible is
\* taken; failed store reads and failed node writes are finitely many
NextHeartbeatLive ==
    \/ \E dc \in {myDatacenter, "dcB"} : ActivateDatacenter(dc, {})
    \/ \E readFails \in BOOLEAN, age \in HeartbeatAges :
          PerformStartupReconciliation(readFails, age, {})
    \/ HeartbeatTick

\* every cluster starts with a ready, an ineligible and a draining node, and
\* the store holds a record that names another datacenter
InitHeartbeatLive ==
    /\ InitHeartbeat
    /\ nodes[myDatacenter]["n2"] = IneligibleNode
    /\ record = ActiveRecord("dcB", "api")

SpecHeartbeatLive ==
    InitHeartbeatLive /\ [][NextHeartbeatLive]_vars /\ WF_vars(HeartbeatTick)

\* the watchdog, with region activation requests whose calls all succeed and
\* the expiry of cache entries
NextWatchdog ==
    \/ \E r \in Regions : ActivateRegion(r, {})
    \/ \E dc \in AllClusters : CacheExpire(dc)
    \/ \E leader \in Leaders :
          \E F \in CheckFaults(FaultSets(nfaults), leader) :
              performCheck(leader, F)

SpecWatchdog == Init /\ [][NextWatchdog]_vars

\* the watchdog whose snapshot fetches may fail and whose node writes
\* succeed, with region activation requests and the expiry of cache entries
NextDetect ==
    \/ \E r \in Regions : ActivateRegion(r, {})
    \/ \E dc \in AllClusters : CacheExpire(dc)
    \/ \E leader \in Leaders :
          \E F \in FetchFaults(FaultSets(nfaults), clusters) :
              performCheck(leader, F)

SpecDetect == Init /\ [][NextDetect]_vars

\* the watchdog running concurrently with region activation requests: a
\* cycle is one step, or two when handleFailure drains, and a request may
\* be served between the two; every call succeeds
NextWatchdogRace ==
    \/ \E r \in Regions : ActivateRegion(r, {})
    \/ \E leader \in Leaders : performCheck(leader, {})
    \/ \E leader \in Leaders : handleFailureDecide(leader)
    \/ handleFailureDrain

SpecWatchdogRace == Init /\ [][NextWatchdogRace]_vars

\* activation requests whose calls all succeed, with read-only requests
\* whose GetNodes run concurrently with them
NextConcurrentReads ==
    \/ \E dc \in AllClusters : ActivateDatacenter(dc, {})
    \/ \E r \in Regions : ActivateRegion(r, {})
    \/ \E dc \in AllClusters : ReadFetch(dc)
    \/ \E dc \in AllClusters : ReadStore(dc)
    \/ \E dc \in AllClusters : CacheExpire(dc)

SpecConcurrentReads == Init /\ [][NextConcurrentReads]_vars

\* calls of DrainAllNodesInRegion and node listings that fill the cache
NextRegionDrain ==
    \/ \E dc \in AllClusters : ReadNodes(dc, FALSE)
    \/ \E r \in Regions, F \in FaultSets(nfaults) :
          DrainAllNodesInRegion(r, F)

\* the state after construction, each cluster with a node list of its own
InitRegionDrain ==
    /\ clusters \in Deployments
    /\ nodes \in [clusters -> InitProfiles]
    /\ cache = [c \in AllClusters |-> <<>>]
    /\ record = <<>>
    /\ amDrained = FALSE
    /\ activeRegion = ""
    /\ failureCounter = ResetCounters
    /\ reconciled = "no"
    /\ ncalls = 0
    /\ nfaults = 0
    /\ call = NoCall
    /\ hb = IdleHeartbeat
    /\ reading = [c \in AllClusters |-> <<>>]
    /\ last = NoStep
    /\ nodeCache = [c \in AllClusters |-> NodeIds]
    /\ pending = <<>>
    /\ stopHeartbeat = "open"
    /\ repo = NoConfig
    /\ px = NoExecution

SpecRegionDrain == InitRegionDrain /\ [][NextRegionDrain]_vars

\* the startup synchronisation of main, which runs before the first request
NextEnsure ==
    \E keep \in Regions \cup {"-"}, F \in FaultSets(nfaults) :
        EnsureSingleActiveDatacenter(keep, F)

SpecEnsure == InitRegionDrain /\ [][NextEnsure]_vars

\* one call of the executor: the loop of the caller and its goroutines
NextParallel ==
    \/ Spawn
    \/ \E index \in 0..(MaxTasks - 1) : Begin(index)
    \/ \E index \in 0..(MaxTasks - 1) : End(index)
    \/ Return

\* a call of ParallelExecute, ParallelExecuteWithLimit or ParallelMap has
\* been made with some task list and some limit
InitParallel ==
    /\ clusters = AllClusters
    /\ nodes = [c \in clusters |-> [n \in NodeIds |-> ReadyNode]]
    /\ cache = [c \in AllClusters |-> <<>>]
    /\ record = <<>>
    /\ amDrained = FALSE
    /\ activeRegion = ""
    /\ failureCounter = ResetCounters
    /\ reconciled = "no"
    /\ ncalls = 0
    /\ nfaults = 0
    /\ call = NoCall
    /\ hb = IdleHeartbeat
    /\ reading = [c \in AllClusters |-> <<>>]
    /\ last = NoStep
    /\ nodeCache = [c \in AllClusters |-> NodeIds]
    /\ pending = <<>>
    /\ stopHeartbeat = "open"
    /\ repo = NoConfig
    /\ \/ \E tasks \in Slices(Outcomes) :
             px = Execution("ParallelExecute", tasks, 0)
       \/ \E tasks \in Slices(Outcomes), maxConcurrent \in (-1)..MaxTasks :
             px = Execution("ParallelExecuteWithLimit", tasks, maxConcurrent)
       \/ \E items \in Slices(Items) :
             px = Execution("ParallelMap", MapTasks(items), 0)

\* every goroutine is scheduled and every task returns
SpecParallel == InitParallel /\ [][NextParallel]_vars /\ WF_vars(NextParallel)

\* the construction of the repository from a loaded configuration
NextRepository == NewNomadRepository

\* a configuration has been loaded and validated
InitRepository ==
    /\ clusters = AllClusters
    /\ nodes = [c \in clusters |-> [n \in NodeIds |-> ReadyNode]]
    /\ cache = [c \in AllClusters |-> <<>>]
    /\ record = <<>>
    /\ amDrained = FALSE
    /\ activeRegion = ""
    /\ failureCounter = ResetCounters
    /\ reconciled = "no"
    /\ ncalls = 0
    /\ nfaults = 0
    /\ call = NoCall
    /\ hb = IdleHeartbeat
    /\ reading = [c \in AllClusters |-> <<>>]
    /\ last = NoStep
    /\ nodeCache = [c \in AllClusters |-> NodeIds]
    /\ pending = <<>>
    /\ stopHeartbeat = "open"
    /\ px = NoExecution
    /\ \E cfg \in Configs, skip \in BOOLEAN :
          repo = [NoConfig EXCEPT !.clusters = cfg, !.skip = skip]

SpecRepository == InitRepository /\ [][NextRepository]_vars

\* the heartbeat loop with its stop signal.  The ticker fires again as long
\* as the loop runs, a tick that was begun is completed, and a select with
\* several ready cases chooses among them at random, so that a stop case
\* that is ready at every select is taken at one of them.
NextHeartbeatStop ==
    \/ \E readFails \in BOOLEAN, age \in HeartbeatAges :
          PerformStartupReconciliation(readFails, age, {})
    \/ HeartbeatTick
    \/ StopHeartbeat
    \/ HeartbeatExit

SpecHeartbeatStop ==
    /\ InitHeartbeat
    /\ [][NextHeartbeatStop]_vars
    /\ WF_vars(HeartbeatTick)
    /\ SF_vars(HeartbeatExit)

\* a heartbeat tick for the record of a peer beside activations requested
\* on the same instance
NextHeartbeatRace ==
    \/ \E dc \in {myDatacenter, "dcB"} : ActivateDatacenter(dc, {})
    \/ \E readFails \in BOOLEAN, age \in HeartbeatAges :
          PerformStartupReconciliation(readFails, age, {})
    \/ HeartbeatFetch
    \/ \E F \in FaultsOn(FaultSets(nfaults), {myDatacenter}) :
          HeartbeatReact(F)

SpecHeartbeatRace == InitHeartbeat /\ [][NextHeartbeatRace]_vars

\* the read-only requests and the expiry of cache entries
NextViews ==
    \/ \E F \in FetchFaults(FaultSets(nfaults), clusters) : ListDatacenters(F)
    \/ \E F \in FetchFaults(FaultSets(nfaults), clusters) : ListRegions(F)
    \/ \E r \in Regions :
          \E F \in FetchFaults(FaultSets(nfaults),
                               SeqToSet(GetClustersByRegion(r))) :
              GetDatacentersByRegion(r, F)
    \/ \E r \in Regions :
          \E F \in FetchFaults(FaultSets(nfaults),
                               SeqToSet(GetClustersByRegion(r))) :
              GetRegionDatacenters(r, F)
    \/ \E dc \in AllClusters : CacheExpire(dc)

SpecViews == InitRegionDrain /\ [][NextViews]_vars

\* the node address caches the repository may hold after construction
AddressCaches ==
    {[c \in AllClusters |-> known] : known \in {{}, {"n1"}, NodeIds}}

\* calls of nomadRepository.SetNodeDrain
NextSetNodeDrain ==
    \E c \in AllClusters, n \in NodeIds, drain \in BOOLEAN,
       centralFails \in BOOLEAN, directFails \in BOOLEAN :
        RepoSetNodeDrain(c, n, drain, centralFails, directFails)

\* the state after construction, with one of the node address caches
InitSetNodeDrain ==
    /\ clusters \in Deployments
    /\ \E p \in InitProfiles : nodes = [c \in clusters |-> p]
    /\ cache = [c \in AllClusters |-> <<>>]
    /\ record = <<>>
    /\ amDrained = FALSE
    /\ activeRegion = ""
    /\ failureCounter = ResetCounters
    /\ reconciled = "no"
    /\ ncalls = 0
    /\ nfaults = 0
    /\ call = NoCall
    /\ hb = IdleHeartbeat
    /\ reading = [c \in AllClusters |-> <<>>]
    /\ last = NoStep
    /\ nodeCache \in AddressCaches
    /\ pending = <<>>
    /\ stopHeartbeat = "open"
    /\ repo = NoConfig
    /\ px = NoExecution

SpecSetNodeDrain == InitSetNodeDrain /\ [][NextSetNodeDrain]_vars

----------------------------------------------------------------------------
(* Vocabulary of the properties *)

\* the step is an activation call, described by call'
ActivationStep == ncalls' = ncalls + 1

\* the last call is an activation that returned a result
Returned == call.op # "none" /\ ~call.failed

\* the region the last call activated
TargetRegion ==
    IF call.op = "ActivateDatacenter" THEN RegionOf[call.target]
    ELSE call.target

\* the drain value the activation described by cl computes for cluster c
TargetDrain(cl, c) ==
    IF cl.op = "ActivateDatacenter" THEN c # cl.target
    ELSE RegionOf[c] # cl.target

\* the node list GetNodes hands to a call that starts in this state
Snapshot(c) == IF cache[c] # <<>> THEN cache[c][1] ELSE nodes[c]

HasReadyNode(c) == \E n \in NodeIds : IsReady(nodes[c][n])

AllNodes(c, st) == \A n \in NodeIds : nodes[c][n] = st

Occurrences(seq, e) == Cardinality({i \in DOMAIN seq : seq[i] = e})

\* the target of the activation described by cl exists: the datacenter is a
\* known cluster, the region has at least one cluster
KnownTarget(cl) ==
    IF cl.op = "ActivateDatacenter" THEN cl.target \in clusters
    ELSE \E c \in clusters : RegionOf[c] = cl.target

\* the writes of the activation described by cl to the node n of cluster c
WritesTo(cl, c, n) == {w \in cl.writes : w.cluster = c /\ w.node = n}

----------------------------------------------------------------------------
(* C1 *)

----------------------------------------------------------------------------
(* C2 *)

\* C2: when an activation returns, in every cluster that was not skipped
\* every node is, in the cluster itself, in the target state computed for
\* its cluster, or errors[] lists a failure for that node or for its
\* cluster; whatever the node cache held when the activation started.
C2_TargetStateOrError ==
    Returned =>
        \A c \in clusters \ call.skipped : \A n \in NodeIds :
            \/ nodes[c][n] = SetNodeDrain(TargetDrain(call, c))
            \/ NodeError(c, n) \in SeqToSet(call.errors)
            \/ FetchError(c) \in SeqToSet(call.errors)

----------------------------------------------------------------------------
(* C3 *)

----------------------------------------------------------------------------
(* C4 *)

\* the step is ActivateDatacenter(dcB), without any failure, in the
\* deployment of dcA and dcB (both in region us) with 3 ready nodes each
TwoClusterSwap ==
    /\ ActivationStep
    /\ clusters = {"dcA", "dcB"}
    /\ AllNodes("dcA", ReadyNode)
    /\ AllNodes("dcB", ReadyNode)
    /\ call'.op = "ActivateDatacenter"
    /\ call'.target = "dcB"
    /\ nfaults' = nfaults

----------------------------------------------------------------------------
(* C5 *)

\* the step is ActivateRegion(eu), without any failure, in the deployment
\* us = {dcA, dcB}, eu = {dcC} with 3 ready nodes in each cluster
RegionSwitch ==
    /\ ActivationStep
    /\ clusters = {"dcA", "dcB", "dcC"}
    /\ \A c \in clusters : AllNodes(c, ReadyNode)
    /\ call'.op = "ActivateRegion"
    /\ call'.target = "eu"
    /\ nfaults' = nfaults

----------------------------------------------------------------------------
(* C6 *)

----------------------------------------------------------------------------
(* C7 *)

\* C7: drained_nodes is the number of successful SetNodeDrain(true) calls
\* the activation issued and un_drained_nodes the number of successful
\* SetNodeDrain(false) calls; a node already in its target state gets no
\* call, so neither it nor a node whose write failed is counted.
C7_Counters ==
    [][(ActivationStep /\ ~call'.failed)
        => /\ call'.drained_nodes =
                Cardinality({w \in call'.writes : w.drain /\ w.ok})
           /\ call'.un_drained_nodes =
                Cardinality({w \in call'.writes : ~w.drain /\ w.ok})
           /\ \A w \in call'.writes :
                /\ ~AlreadyCorrect(Snapshot(w.cluster)[w.node], w.drain)
                /\ Cardinality(WritesTo(call', w.cluster, w.node)) = 1]_vars

\* an activation with a successful write, a failed write and a node that
\* was already in its target state
C7_Witness ==
    /\ Returned
    /\ \E w \in call.writes : w.ok
    /\ \E w \in call.writes : ~w.ok
    /\ \E c \in call.deleted : \E n \in NodeIds : WritesTo(call, c, n) = {}
    /\ call.drained_nodes + call.un_drained_nodes
         = Cardinality(call.writes) - 1

----------------------------------------------------------------------------
(* C8 *)

----------------------------------------------------------------------------
(* C9 *)

----------------------------------------------------------------------------
(* C10 *)

\* C10: activation is fail-fast with rollback: when a node write fails the
\* call returns an error and the nodes it changed are restored, so that no
\* node state differs from the one before the call.
C10_FailFastRollback ==
    [][(ActivationStep /\ \E w \in call'.writes : ~w.ok)
        => /\ call'.failed
           /\ nodes' = nodes]_vars

----------------------------------------------------------------------------
(* C11 *)

\* C11: in an activation a cluster whose node snapshot cannot be fetched
\* gets exactly one errors[] entry and no node write, and its nodes stay as
\* they were; every other cluster that is not skipped is still processed:
\* each of its nodes not already in its target state is written, its cache
\* key is deleted and its successful writes are counted.
C11_FetchFailureSkipsCluster ==
    [][(ActivationStep /\ ~call'.failed)
        => /\ \A c \in call'.fetchFailed :
                /\ Occurrences(call'.errors, FetchError(c)) = 1
                /\ \A n \in NodeIds : WritesTo(call', c, n) = {}
                /\ nodes'[c] = nodes[c]
                /\ c \notin call'.deleted
           /\ \A c \in clusters \ call'.fetchFailed :
                Occurrences(call'.errors, FetchError(c)) = 0
           /\ \A c \in clusters \ (call'.fetchFailed \cup call'.skipped) :
                /\ c \in call'.deleted
                /\ \A n \in NodeIds :
                      ~AlreadyCorrect(Snapshot(c)[n], TargetDrain(call', c))
                         => /\ WritesTo(call', c, n) # {}
                            /\ \A w \in WritesTo(call', c, n) :
                                  w.ok => nodes'[c][n] = SetNodeDrain(w.drain)
           /\ call'.drained_nodes + call'.un_drained_nodes
                = Cardinality({w \in call'.writes : w.ok})]_vars

\* an activation in which the snapshot of one cluster could not be fetched
\* and the nodes of another cluster were written and counted
C11_Witness ==
    /\ Returned
    /\ \E c \in call.fetchFailed : \E n \in NodeIds : IsReady(nodes[c][n])
    /\ \E w \in call.writes : w.ok /\ w.cluster \notin call.fetchFailed
    /\ call.drained_nodes + call.un_drained_nodes >= Cardinality(NodeIds)

----------------------------------------------------------------------------
(* C12 *)

\* the first cluster of the region in alphabetical order
FirstOfRegion(r) ==
    CHOOSE i \in 1..Len(ClusterOrder) :
        /\ ClusterOrder[i] \in clusters
        /\ RegionOf[ClusterOrder[i]] = r
        /\ \A j \in 1..(i - 1) :
              ~(ClusterOrder[j] \in clusters /\ RegionOf[ClusterOrder[j]] = r)

\* the record an activation described by cl puts to the store
ExpectedRecord(cl) ==
    IF cl.op = "ActivateDatacenter" THEN ActiveRecord(cl.target, "api")
    ELSE ActiveRecord(ClusterOrder[FirstOfRegion(cl.target)], "api-region")

\* C12: every activation whose target resolves puts one record to the
\* store: ActivateDatacenter(T) records T with activated_by "api",
\* ActivateRegion(R) the alphabetically first cluster of R with "api-region";
\* when the put fails the stored record is unchanged, exactly one entry is
\* appended to errors[], the call returns a result, the successful node
\* writes stay applied and the watchdog is notified of the target region.
C12_RecordPut ==
    [][(ActivationStep /\ KnownTarget(call'))
        => /\ ~call'.failed
           /\ call'.put
           /\ ~call'.putFailed
                => /\ record' = ExpectedRecord(call')
                   /\ Occurrences(call'.errors, EtcdError) = 0
           /\ call'.putFailed
                => /\ record' = record
                   /\ Occurrences(call'.errors, EtcdError) = 1
                   /\ call'.errors[Len(call'.errors)] = EtcdError
                   /\ \A w \in call'.writes :
                        w.ok => nodes'[w.cluster][w.node] = SetNodeDrain(w.drain)
                   /\ call'.notified
                   /\ activeRegion' = IF call'.op = "ActivateDatacenter"
                                      THEN RegionOf[call'.target]
                                      ELSE call'.target
                   /\ failureCounter' = ResetCounters]_vars

\* a region activation has recorded dcA for region us, and an activation
\* whose put failed has changed nodes and left the record as it was
C12_Witness ==
    \/ /\ call.op = "ActivateRegion"
       /\ call.target = "us"
       /\ ~call.putFailed
       /\ record = ActiveRecord("dcA", "api-region")
       /\ call.writes # {}
    \/ /\ call.putFailed
       /\ call.writes # {}
       /\ record # <<>>
       /\ record # ExpectedRecord(call)
       /\ activeRegion = TargetRegion

----------------------------------------------------------------------------
(* C13 *)

\* the step is the startup reconciliation
StartupStep == reconciled = "no" /\ reconciled' # "no"

\* every ready node of the local datacenter was sent drain=true in the
\* background step described by st
DrainSentToReady(st) ==
    \A n \in NodeIds :
        IsReady(nodes[myDatacenter][n])
           => \E w \in st.writes :
                 w.cluster = myDatacenter /\ w.node = n /\ w.drain

\* C13: when startup reconciliation reads a record that names the local
\* datacenter and whose heartbeat age is below stale_threshold, it sends
\* drain=true to every ready node of the local datacenter, sets amDrained,
\* returns an error and does not write the active-datacenter key.
C13_SplitBrainGuard ==
    [][(StartupStep /\ last'.readOk /\ last'.names = myDatacenter
           /\ last'.age < StaleThreshold)
        => /\ DrainSentToReady(last')
           /\ amDrained'
           /\ last'.err
           /\ reconciled' = "error"
           /\ record' = record]_vars

----------------------------------------------------------------------------
(* C14 *)

\* a step of the heartbeat loop: the first or the second half of a tick
HeartbeatStep == last' # last /\ last'.op \in {"hbRead", "hbPut"}

\* the second half of a tick: the store write was issued
PutIssued == HeartbeatStep /\ last'.op = "hbPut"

\* C14: at the tick whose failed heartbeat write brings the counter to
\* max_failures while the instance is not drained, every ready node of M is
\* sent drain=true and the instance is marked drained; and the loop issues a
\* store write only in a tick whose read succeeded and returned a record
\* naming M.
C14_QuorumLossFencing ==
    [][/\ (PutIssued /\ last'.put = "failed"
              /\ last'.failures >= MaxFailures /\ ~last'.wasDrained)
          => (DrainSentToReady(last') /\ amDrained')
       /\ PutIssued => (last'.readOk /\ last'.names = myDatacenter)]_vars

----------------------------------------------------------------------------
(* C15 *)

\* a tick of the heartbeat loop whose read of the record failed
ReadFailed == HeartbeatStep /\ last'.op = "hbRead" /\ ~last'.readOk

\* C15: when the reads of the record fail, the tick that is the
\* max_failures-th consecutive failed one leaves the instance marked drained,
\* with drain=true sent to every ready node of M if it was not drained before.
C15_ReadFailureFencing ==
    [][(ReadFailed /\ last'.failures >= MaxFailures)
          => /\ amDrained'
             /\ ~last'.wasDrained => DrainSentToReady(last')]_vars

----------------------------------------------------------------------------
(* C16 *)

\* the last activation issued has put its record to the store
ActivationRecorded == call.put /\ ~call.putFailed

\* C16: once the put of an activation has completed, the stored record names
\* the datacenter that activation recorded until another activation is
\* issued, whatever the heartbeat loop does in between.
C16_ActivationNotLost ==
    ActivationRecorded
       => /\ record # <<>>
          /\ record[1].datacenter = ExpectedRecord(call)[1].datacenter

----------------------------------------------------------------------------
(* C17 *)

\* the first half of a tick
ReadIssued == HeartbeatStep /\ last'.op = "hbRead"

\* C17: the heartbeat loop goes on to put the record only in a tick whose
\* read returned a record naming M while it is not the case that the
\* instance is marked drained and the heartbeat on the record is younger
\* than stale_threshold; a drained instance that reads a fresh record naming
\* M ends the tick without a put, still drained, the record as it was.
C17_PutOnlyWhenOwnAndNotFenced ==
    [][/\ (ReadIssued /\ last'.put = "pending")
          => /\ last'.readOk
             /\ last'.names = myDatacenter
             /\ ~(last'.wasDrained /\ last'.age < StaleThreshold)
       /\ PutIssued
          => /\ last.op = "hbRead" /\ last.put = "pending"
             /\ last'.names = myDatacenter
             /\ ~(last'.wasDrained /\ last'.age < StaleThreshold)
       /\ (ReadIssued /\ last'.readOk /\ last'.names = myDatacenter
              /\ last'.wasDrained /\ last'.age < StaleThreshold)
          => /\ last'.put = "none"
             /\ amDrained'
             /\ record' = record
             /\ hb'.phase = "idle"]_vars

\* the instance drained itself at startup on a fresh record naming M, no
\* activation was issued, and a tick has read the fresh record and ended
\* without a put
C17_Witness ==
    /\ reconciled = "error"
    /\ ncalls = 0
    /\ amDrained
    /\ last.op = "hbRead"
    /\ last.readOk
    /\ last.names = myDatacenter
    /\ last.age < StaleThreshold
    /\ last.put = "none"
    /\ record = ActiveRecord(myDatacenter, "api")

----------------------------------------------------------------------------
(* C18 *)

\* the step is a watchdog cycle: no request is served, the log describes a
\* cycle, and when the log is the one of the cycle before, no cache entry
\* has expired
CheckStep ==
    /\ ncalls' = ncalls
    /\ last'.op = "probe"
    /\ \/ last' # last
       \/ \A c \in AllClusters : cache[c] # <<>> => cache'[c] # <<>>

\* the step is a watchdog cycle whose probe failed, described by last'
FailedProbe == CheckStep /\ last'.err

\* C18: at a failed probe the failure counter is at least the number of
\* consecutive failed probes of the monitored region; the watchdog invokes
\* DrainAllNodesInRegion for that region exactly when the counter has
\* reached failed_threshold, hence at the latest at the failed_threshold-th
\* consecutive failure; the counter of the region is 0 after a drain that
\* returned success and keeps its value after a drain that returned an
\* error, so that the next failed probe drains again.
C18_WatchdogDrain ==
    [][FailedProbe
        => LET r == last'.region
           IN  /\ last'.failures >= last'.streak
               /\ last'.streak >= FailedThreshold => last'.drainCalled
               /\ last'.drainCalled <=> last'.failures >= FailedThreshold
               /\ last'.drainCalled
                     => /\ last'.deleted = {c \in clusters : RegionOf[c] = r}
                        /\ \A w \in last'.writes : RegionOf[w.cluster] = r
               /\ failureCounter'[r] =
                     IF last'.drainCalled /\ ~last'.drainErr THEN 0
                     ELSE last'.failures
               /\ activeRegion' = r]_vars

\* the failed_threshold-th consecutive failed probe of region us has drained
\* ready nodes of us and the counter of us is back to 0
C18_Witness ==
    /\ last.op = "probe"
    /\ last.region = "us"
    /\ last.streak = FailedThreshold
    /\ last.failures = FailedThreshold
    /\ last.drainCalled
    /\ ~last.drainErr
    /\ \E w \in last.writes : w.cluster = "dcA" /\ w.ok
    /\ failureCounter["us"] = 0

----------------------------------------------------------------------------
(* C19 *)

\* the step is a call of DrainAllNodesInRegion, described by last'
RegionDrainStep == last' # last /\ last'.op = "drainRegion"

\* the healthy clusters of region r
ClustersOf(r) == {c \in clusters : RegionOf[c] = r}

\* C19: DrainAllNodesInRegion(region) attempts SetNodeDrain(true) on every
\* node whose snapshot shows drain = false, in every cluster of the region
\* whose snapshot it obtained; it writes to no cluster outside the region,
\* deletes the cache key of every cluster of the region, and returns an
\* error without any write when the region has no clusters.
C19_DrainAllNodesInRegion ==
    [][RegionDrainStep
        => LET r == last'.region
           IN  /\ \A c \in ClustersOf(r) \ last'.fetchFailed :
                     \A n \in NodeIds :
                        ~Snapshot(c)[n].drain
                           => \E w \in last'.writes :
                                 w.cluster = c /\ w.node = n /\ w.drain
               /\ \A w \in last'.writes :
                     /\ w.cluster \in ClustersOf(r)
                     /\ w.drain
                     /\ w.ok => nodes'[w.cluster][w.node] = SetNodeDrain(TRUE)
               /\ \A c \in clusters \ ClustersOf(r) :
                     nodes'[c] = nodes[c] /\ cache'[c] = cache[c]
               /\ \A c \in ClustersOf(r) : cache'[c] = <<>>
               /\ last'.deleted = ClustersOf(r)
               /\ ClustersOf(r) = {}
                     => /\ last'.err
                        /\ last'.writes = {}
                        /\ nodes' = nodes]_vars

\* a drain of region us has written to a node that was not draining and not
\* eligible, region eu keeps ready nodes; and a drain of a region without
\* clusters has returned its error
C19_Witness ==
    \/ /\ last.op = "drainRegion"
       /\ last.region = "us"
       /\ ~last.err
       /\ \E w \in last.writes : w.node = "n2" /\ w.ok
       /\ "dcC" \in clusters
       /\ HasReadyNode("dcC")
       /\ \A c \in {"dcA", "dcB"} : AllNodes(c, SetNodeDrain(TRUE))
    \/ /\ last.op = "drainRegion"
       /\ last.region = "eu"
       /\ "dcC" \notin clusters
       /\ last.err

----------------------------------------------------------------------------
(* C20 *)

\* the last activation has written nodes of cluster c and returned
WroteTo(c) == Returned /\ \E w \in call.writes : w.cluster = c /\ w.ok

\* C20: once an operation has written nodes of cluster c and returned, a
\* cache entry of c holds a node list fetched after those writes, so the
\* next GetNodes(c) does not return a list taken before the writes.
C20_NoStaleSnapshot ==
    \A c \in clusters :
        (WroteTo(c) /\ cache[c] # <<>>) => cache[c][1] = nodes[c]

----------------------------------------------------------------------------
(* C21 *)

\* the step is a call of nomadRepository.SetNodeDrain, described by last'
RepoStep == last' # last /\ last'.op = "SetNodeDrain"

\* C21: SetNodeDrain makes the central call first, with markEligible = not
\* drain, makes the direct call only after the central call failed, returns
\* success when either call succeeded and an error only when both failed (a
\* node without cached address is a failed direct call); for an unknown
\* cluster it returns an error without any call.
C21_CentralThenDirect ==
    [][RepoStep
        => \A w \in last'.writes :
              /\ w.cluster \notin clusters
                    => /\ last'.err
                       /\ last'.central = "none"
                       /\ last'.direct = "none"
                       /\ nodes' = nodes
              /\ w.cluster \in clusters
                    => /\ last'.central \in {"ok", "failed"}
                       /\ last'.markEligible = ~w.drain
                       /\ last'.direct # "none" <=> last'.central = "failed"
                       /\ last'.direct = "noaddr"
                             <=> /\ last'.central = "failed"
                                 /\ w.node \notin nodeCache[w.cluster]
                       /\ last'.err <=> /\ last'.central = "failed"
                                        /\ last'.direct \in {"failed", "noaddr"}
                       /\ ~last'.err
                             => nodes'[w.cluster][w.node] = Node(w.drain, ~w.drain)
                       /\ last'.err => nodes' = nodes]_vars

\* the central call failed, the direct call to the cached address succeeded
\* and the call returned success with the node draining
C21_Witness ==
    /\ last.op = "SetNodeDrain"
    /\ last.central = "failed"
    /\ last.direct = "ok"
    /\ ~last.err
    /\ \E w \in last.writes : w.drain /\ nodes[w.cluster][w.node] = Node(TRUE, FALSE)

----------------------------------------------------------------------------
(* C22 *)

\* the step is a request that returns datacenter views, described by last'
ViewStep ==
    /\ last' # last
    /\ last'.op \in {"ListDatacenters", "ListRegions",
                     "GetDatacentersByRegion"}

\* the datacenter views in the answer st
AllViews(st) ==
    {st.views[i] : i \in 1..Len(st.views)}
    \cup UNION {{st.regions[i].datacenters[j] :
                    j \in 1..Len(st.regions[i].datacenters)} :
                i \in 1..Len(st.regions)}

\* C22: in every datacenter view returned by ListDatacenters, ListRegions
\* or GetDatacentersByRegion nodes_ready + nodes_draining = nodes_total,
\* nodes_ready being the number of nodes that are not draining and
\* eligible; the status is error when the snapshot could not be fetched,
\* otherwise draining when nodes_ready = 0, otherwise active.
C22_ViewCounts ==
    [][ViewStep
        => \A v \in AllViews(last') :
              /\ v.nodes_ready + v.nodes_draining = v.nodes_total
              /\ v.status = IF v.name \in last'.fetchFailed THEN "error"
                            ELSE IF v.nodes_ready = 0 THEN "draining"
                            ELSE "active"
              /\ v.name \notin last'.fetchFailed
                    => /\ v.nodes_total = Cardinality(NodeIds)
                       /\ v.nodes_ready =
                             Cardinality({n \in NodeIds :
                                            IsReady(Snapshot(v.name)[n])})]_vars

\* ListRegions has returned a view with one ready node, one draining node
\* and one node that is not draining and not eligible, and a view in error
C22_Witness ==
    /\ last.op = "ListRegions"
    /\ \E v \in AllViews(last) :
          /\ v.status = "active"
          /\ v.nodes_ready = 1
          /\ v.nodes_draining = 2
          /\ nodes[v.name]["n2"] = IneligibleNode
    /\ \E v \in AllViews(last) : v.status = "error"

----------------------------------------------------------------------------
(* C23 *)

\* the step is a request that returns region views, described by last'
RegionViewStep ==
    last' # last /\ last'.op \in {"ListRegions", "GetRegionDatacenters"}

\* the statuses of the member datacenters of the region view rv
MemberStatuses(rv) ==
    {rv.datacenters[j].status : j \in 1..Len(rv.datacenters)}

\* C23 as stated: in every region view the status is active if and only if
\* all members are active, draining if and only if all are draining,
\* partial if and only if active and draining members both appear, and
\* error if and only if some member is in error, a region without members
\* included.
C23_StatusIff ==
    [][RegionViewStep
        => \A i \in 1..Len(last'.regions) :
              LET rv == last'.regions[i]
                  S  == MemberStatuses(rv)
              IN  /\ rv.status = "active" <=> S \subseteq {"active"}
                  /\ rv.status = "draining" <=> S \subseteq {"draining"}
                  /\ rv.status = "partial"
                        <=> ("active" \in S /\ "draining" \in S)
                  /\ rv.status = "error" <=> "error" \in S]_vars

\* C23: in every region view the status is error if and only if some member
\* is in error; otherwise it is draining if and only if all members are
\* draining, which a region without members is, partial if and only if
\* active and draining members both appear, and active if and only if the
\* region has members and all of them are active.
C23_StatusByPriority ==
    [][RegionViewStep
        => \A i \in 1..Len(last'.regions) :
              LET rv == last'.regions[i]
                  S  == MemberStatuses(rv)
              IN  /\ rv.status = "error" <=> "error" \in S
                  /\ "error" \notin S
                        => /\ rv.status = "draining"
                                 <=> S \subseteq {"draining"}
                           /\ rv.status = "partial"
                                 <=> ("active" \in S /\ "draining" \in S)
                           /\ rv.status = "active" <=> S = {"active"}
                  /\ S = {st \in {"active", "draining", "error"} :
                            StatusCount(rv.datacenters, st) > 0}]_vars

\* a view of a region without members has been returned, and its status is
\* draining
C23_Witness ==
    /\ last.op = "GetRegionDatacenters"
    /\ Len(last.regions) = 1
    /\ last.regions[1].datacenters = <<>>
    /\ last.regions[1].status = "draining"

----------------------------------------------------------------------------
(* C24 *)

\* the positions of the steps of kind k in the step log st
StepsOf(st, k) == {i \in 1..Len(st) : st[i].kind = k}

\* the positions of the steps of st in which a node write was issued
WriteSteps(st) == {i \in StepsOf(st, "writes") : st[i].count > 0}

\* C24 as stated: within one activation every node write, over all
\* clusters, has completed before any node-cache key is deleted, before job
\* evaluations are triggered and before the record is put; the four steps
\* run strictly in that order.
C24_AllWritesBeforeDeletes ==
    [][(ActivationStep /\ ~call'.failed)
        => LET st == call'.steps
           IN  /\ \A i \in WriteSteps(st) :
                    \A j \in StepsOf(st, "delete") : i < j
               /\ \A i \in StepsOf(st, "delete") :
                    \A j \in StepsOf(st, "evaluate") : i < j
               /\ \A i \in StepsOf(st, "evaluate") :
                    \A j \in StepsOf(st, "put") : i < j]_vars

\* C24: within one activation the node writes of a cluster have completed
\* before the cache key of that cluster is deleted, which is the step that
\* follows them; every node write and every cache deletion comes before the
\* job evaluations, and these come before the put of the record, which is
\* the last step.  Clusters are handled one after the other, so the key of
\* one cluster may be deleted before the nodes of the next are written.
C24_StepOrder ==
    [][(ActivationStep /\ ~call'.failed)
        => \E st \in {call'.steps} :
              /\ \A i \in 1..(Len(st) - 1) :
                    /\ st[i].kind = "writes"
                          => /\ st[i + 1].kind = "delete"
                             /\ st[i + 1].cluster = st[i].cluster
                    /\ st[i].kind = "delete"
                          => (i > 1 /\ st[i - 1].kind = "writes")
                    /\ st[i].kind = "evaluate"
                          => st[i + 1].kind \in {"evaluate", "put"}
                    /\ st[i].kind # "put"
              /\ st[Len(st)].kind = "put"
              /\ \A w \in call'.writes :
                    \E i \in 1..Len(st) :
                        /\ st[i].kind = "writes"
                        /\ st[i].cluster = w.cluster
                        /\ st[i].count > 0
              /\ \A c \in clusters :
                    c \in call'.deleted
                       <=> \E i \in 1..Len(st) :
                              st[i].kind = "delete" /\ st[i].cluster = c
              /\ \A c \in clusters :
                    c \in call'.evals
                       <=> \E i \in 1..Len(st) :
                              st[i].kind = "evaluate" /\ st[i].cluster = c]_vars

\* an activation has written nodes of two clusters, deleted both keys,
\* triggered evaluations and put the record
C24_Witness ==
    /\ Returned
    /\ Cardinality(WriteSteps(call.steps)) = 2
    /\ Cardinality(StepsOf(call.steps, "delete")) >= 2
    /\ StepsOf(call.steps, "evaluate") # {}
    /\ ~call.putFailed

----------------------------------------------------------------------------
(* C25 *)

\* C25: startup reconciliation never resumes as active.  Whatever the store
\* holds (no record or a failed read, a record naming another datacenter, a
\* record naming the local datacenter with any heartbeat age, the age equal
\* to stale_threshold included), when no drain write fails the
\* reconciliation returns with amDrained set and with drain=true sent to
\* every ready node of the local datacenter.
C25_StartupNeverResumes ==
    [][(StartupStep /\ ~last'.drainErr)
        => /\ amDrained'
           /\ last'.drainCalled
           /\ DrainSentToReady(last')
           /\ \A w \in last'.writes : w.ok]_vars

----------------------------------------------------------------------------
(* C26 *)

\* C26: the active-datacenter record is created only by an activation.
\* While the key is absent, a step that creates it is an activation whose
\* put succeeded; startup reconciliation leaves the key absent; and a tick
\* of the heartbeat loop takes the absent key for a failed read: it adds one
\* to the failure counter and ends without a put, and no put is pending.
C26_RecordCreatedByActivation ==
    [][record = <<>>
        => /\ record' # <<>>
                => (ActivationStep /\ call'.put /\ ~call'.putFailed)
           /\ StartupStep => (record' = <<>> /\ ~last'.readOk)
           /\ hb.phase = "idle"
           /\ HeartbeatStep
                => /\ last'.op = "hbRead"
                   /\ ~last'.readOk
                   /\ last'.failures = hb.failures + 1
                   /\ hb'.failures = hb.failures + 1
                   /\ last'.put = "none"
                   /\ hb'.phase = "idle"
                   /\ record' = <<>>]_vars

\* the heartbeat loop has ticked on an absent key after the startup
\* reconciliation, and the key is still absent
C26_Witness ==
    /\ record = <<>>
    /\ reconciled # "no"
    /\ last.op = "hbRead"
    /\ ~last.readOk
    /\ hb.failures = 2

----------------------------------------------------------------------------
(* C27 *)

\* the stored record names a datacenter other than the local one
OtherRecorded == record # <<>> /\ record[1].datacenter # myDatacenter

\* a tick of the heartbeat loop whose read returned a record naming another
\* datacenter
OtherTick == HeartbeatStep /\ last'.readOk /\ last'.names # myDatacenter

\* C27: while the stored record names a datacenter other than M, the store
\* answers and the drain writes to M succeed, the heartbeat loop of an
\* instance that is not marked drained eventually sends drain=true to every
\* ready node of M and marks the instance drained; every tick that reads
\* such a record sets the failure counter to 0 and issues no store write,
\* and when the instance was not drained and no drain write failed, that
\* tick sent drain=true to every ready node of M and marked it drained.
C27_OtherActiveDrains ==
    /\ [][OtherTick
           => /\ last'.op = "hbRead"
              /\ hb'.failures = 0
              /\ hb'.phase = "idle"
              /\ last'.put = "none"
              /\ record' = record
              /\ last'.drainCalled = ~amDrained
              /\ (~amDrained /\ ~last'.drainErr)
                    => /\ amDrained'
                       /\ DrainSentToReady(last')
                       /\ \A w \in last'.writes : w.ok /\ w.drain]_vars
    /\ (reconciled # "no" /\ OtherRecorded /\ ~amDrained)
          ~> (amDrained \/ ~OtherRecorded)

\* a tick of an instance that was not drained has read a record naming
\* another datacenter, sent drain=true to a node and marked the instance
\* drained
C27_Witness ==
    /\ OtherRecorded
    /\ last.op = "hbRead"
    /\ last.readOk
    /\ ~last.wasDrained
    /\ last.writes # {}
    /\ amDrained
    /\ hb.failures = 0

----------------------------------------------------------------------------
(* C28 *)

\* the step is a watchdog cycle that probed a region, described by last'
ProbeStep == CheckStep /\ last'.region # ""

----------------------------------------------------------------------------
(* C29 *)

\* the step is an activation that notified the watchdog (SetActiveRegion)
Notification == ActivationStep /\ call'.notified

\* C29: the notification of an activation sets every watchdog counter to 0,
\* and however a watchdog cycle in progress is interleaved with it, the
\* watchdog drains a region only when failed_threshold consecutive failed
\* probes of it have been counted since the last notification: at a drain
\* that handleFailure carries out after its decision the counter of the
\* region still has the value the decision was taken on.
C29_NoDrainOnOldCounter ==
    [][/\ Notification => failureCounter' = ResetCounters
       /\ (pending # <<>> /\ pending' = <<>>)
            => /\ failureCounter[pending[1].region]
                    = pending[1].currentFailures
               /\ failureCounter[pending[1].region] >= FailedThreshold
       /\ (CheckStep /\ last'.drainCalled)
            => last'.failures >= FailedThreshold]_vars

----------------------------------------------------------------------------
(* C30 *)

\* the status of datacenter c as a watchdog cycle that starts in this state
\* and fails to fetch the snapshots of the clusters in missed sees it
SeenStatus(c, missed) ==
    IF c \in missed THEN "error"
    ELSE IF \E n \in NodeIds : IsReady(Snapshot(c)[n]) THEN "active"
    ELSE "draining"

\* region r is active or partial for that cycle: no datacenter of it is in
\* error and one of them is active
SeenLive(r, missed) ==
    /\ \A c \in ClustersOf(r) : SeenStatus(c, missed) # "error"
    /\ \E c \in ClustersOf(r) : SeenStatus(c, missed) = "active"

\* the position of a name in an alphabetical list
Position(order, x) == CHOOSE i \in 1..Len(order) : order[i] = x

----------------------------------------------------------------------------
(* C31 *)

\* the regions that hold a cluster with a ready node
ReadyRegions ==
    {r \in Regions : \E c \in clusters : RegionOf[c] = r /\ HasReadyNode(c)}

\* the regions that hold a cluster with a ready node whose snapshot the
\* step being taken has read
ReadRegions ==
    {r \in Regions :
        \E c \in clusters \ last'.fetchFailed :
            RegionOf[c] = r /\ HasReadyNode(c)}

\* a step of EnsureSingleActiveDatacenter
EnsureStep == last'.op = "ensure" /\ nodeCache' = nodeCache

----------------------------------------------------------------------------
(* C32 *)

\* the result the call owes for input i
Owed(i) ==
    [Value |-> px.tasks[i].value, Error |-> px.tasks[i].err, Index |-> i]

\* C32: ParallelExecute, ParallelExecuteWithLimit and ParallelMap call no
\* task twice; when the call returns every task has been called once and
\* has finished, whether it returned an error or not, and the result slice
\* has the length of the input with the value, the error and the index of
\* input i at position i; with maxConcurrent > 0 never more than
\* maxConcurrent tasks are running; and every call returns.
C32_AllTasksOnceInOrder ==
    /\ [](/\ \A i \in DOMAIN px.runs : px.runs[i] <= 1
          /\ px.returned =>
                /\ \A i \in DOMAIN px.tasks :
                      px.runs[i] = 1 /\ px.pc[i] = "done"
                /\ DOMAIN px.out = DOMAIN px.tasks
                /\ \A i \in DOMAIN px.tasks : px.out[i] = Owed(i)
          /\ (Limited /\ px.maxConcurrent > 0) =>
                Cardinality(Running) <= px.maxConcurrent)
    /\ <>px.returned

\* a call with limit 2 and three tasks, the second of which failed, has
\* returned; two tasks, and never three, were running at the same time
C32_Witness ==
    /\ px.op = "ParallelExecuteWithLimit"
    /\ px.maxConcurrent = 2
    /\ px.returned
    /\ DOMAIN px.tasks = 0..2
    /\ px.out[1].Error
    /\ ~px.out[0].Error
    /\ px.out[2].Index = 2
    /\ px.peak = 2

----------------------------------------------------------------------------
(* C33 *)

\* C33: an operation that has successfully written at least one node of a
\* cluster has deleted the node-cache key of that cluster when it returns,
\* also when another node write of the operation failed: for the last
\* activation that returned and for the last startup drain, heartbeat
\* drain, region drain or startup synchronisation.
C33_WrittenClusterInvalidated ==
    /\ Returned =>
          \A w \in call.writes : w.ok => w.cluster \in call.deleted
    /\ last.op \in {"startup", "hbRead", "hbPut", "drainRegion", "ensure",
                   "drain"} =>
          \A w \in last.writes : w.ok => w.cluster \in last.deleted

----------------------------------------------------------------------------
(* C34 *)

\* the clusters of the configuration whose health check succeeded
Healthy == {i \in DOMAIN repo.clusters : repo.clusters[i].healthy}

\* C34: after a successful construction of the repository every healthy
\* configured cluster is held by the map under a key of its own, which is
\* its chosen name or "<name>-<region>", and no cluster has replaced one
\* stored before it.
C34_DistinctKeys ==
    (repo.built /\ ~repo.err) =>
        /\ \A i \in Healthy :
              \E e \in repo.stored :
                 /\ e.index = i
                 /\ e.key \in {repo.clusters[i].name,
                               repo.clusters[i].name \o "-"
                                  \o repo.clusters[i].region}
        /\ repo.replaced = {}

----------------------------------------------------------------------------
(* C35 *)

\* C35: once StopHeartbeat has been called the running heartbeat loop
\* eventually terminates; a loop that has terminated stays terminated and
\* issues no store read, no store write and no node drain; and the loop
\* terminates only when the stop signal has been given.
C35_StopTerminatesLoop ==
    /\ (stopHeartbeat = "closed" /\ reconciled # "no")
          ~> (hb.phase = "stopped")
    /\ [][hb.phase = "stopped" =>
             /\ hb' = hb
             /\ UNCHANGED <<last, nodes, cache, record, amDrained, nfaults>>]_vars
    /\ [][(hb.phase # "stopped" /\ hb'.phase = "stopped") =>
             stopHeartbeat = "closed"]_vars

\* the loop has terminated after a tick that wrote the heartbeat of the
\* local datacenter
C35_Witness ==
    /\ hb.phase = "stopped"
    /\ stopHeartbeat = "closed"
    /\ last.op = "hbPut"
    /\ last.put = "ok"
    /\ ~amDrained

----------------------------------------------------------------------------
(* C36 *)

\* C36: an activation changes the local drained flag only by setting it to
\* false after a successful store write of a record that names the local
\* datacenter; an activation that recorded another datacenter, or whose
\* write failed, leaves the flag as it was.
C36_FlagClearedForLocalOnly ==
    [][(ActivationStep /\ amDrained' # amDrained) =>
          /\ ~amDrained'
          /\ call'.put
          /\ ~call'.putFailed
          /\ record' # <<>>
          /\ record'[1].datacenter = myDatacenter]_vars

----------------------------------------------------------------------------
(* C37 *)

\* the last activation targeted the region of the local datacenter, returned
\* without errors, and the store still holds the record it wrote
OwnRegionActive ==
    /\ Returned
    /\ call.errors = <<>>
    /\ TargetRegion = RegionOf[myDatacenter]
    /\ record = ExpectedRecord(call)

\* C37: after an activation of the local datacenter's region that completed
\* without errors, and for as long as the store holds the record written by
\* it, no heartbeat tick sends drain=true to a node of the local datacenter.
C37_OwnRegionNotUndone ==
    [][(HeartbeatStep /\ OwnRegionActive) =>
          \A w \in last'.writes :
             ~(w.cluster = myDatacenter /\ w.drain)]_vars

----------------------------------------------------------------------------
(* C38 *)

\* ActivateDatacenter of the local datacenter has completed: its record is
\* stored and the instance is not marked drained
LocalActivated ==
    /\ call.op = "ActivateDatacenter"
    /\ call.target = myDatacenter
    /\ Returned
    /\ ~call.putFailed
    /\ record = ActiveRecord(myDatacenter, "api")

\* C38: once ActivateDatacenter(M) has completed, a heartbeat tick that read
\* the record before the activation sends no drain=true to a node of M and
\* does not mark the instance drained; no state is reached in which the
\* record names M and the instance is marked drained by a tick that ran
\* after the activation.
C38_NoDrainOnStaleRecord ==
    [][(LocalActivated /\ hb.phase = "fetched" /\ hb'.phase = "idle") =>
          /\ \A w \in last'.writes : w.cluster # myDatacenter
          /\ amDrained' = amDrained
          /\ ~(amDrained' /\ record' = ActiveRecord(myDatacenter, "api"))]_vars

----------------------------------------------------------------------------
(* C39 *)

\* C39: when DrainAllNodesInRegion returns without error, every node of
\* every cluster of the region had drain=true in the snapshot or was
\* written with drain=true successfully, and a failed node write makes the
\* call return an error.
C39_NoErrorMeansDrained ==
    [][(RegionDrainStep /\ ~last'.err) =>
          /\ \A w \in last'.writes : w.ok
          /\ \A c \in ClustersOf(last'.region), n \in NodeIds :
                \/ Snapshot(c)[n].drain
                \/ \E w \in last'.writes :
                      w.cluster = c /\ w.node = n /\ w.drain /\ w.ok]_vars

----------------------------------------------------------------------------
(* C40 *)

\* a step of the startup reconciliation or of the heartbeat loop
BackgroundStep ==
    /\ ncalls' = ncalls
    /\ last'.op \in {"startup", "hbRead", "hbPut"}
    /\ \/ last' # last
       \/ nfaults' # nfaults
       \/ amDrained' # amDrained
       \/ hb' # hb
       \/ nodes' # nodes

\* C40: the instance is marked drained only by a step in which drainMyNodes
\* was called and returned no error, every node its snapshot showed ready
\* having been written with drain=true successfully; when a node write of
\* drainMyNodes fails the call returns an error at that node and the flag is
\* not set; and a heartbeat tick that calls for the drain while the flag is
\* false attempts it again.
C40_MarkedOnlyAfterDrain ==
    [][/\ (amDrained' /\ ~amDrained) =>
             /\ BackgroundStep
             /\ last'.drainCalled
             /\ ~last'.drainErr
             /\ \A w \in last'.writes : w.ok
             /\ \A n \in NodeIds :
                   IsReady(Snapshot(myDatacenter)[n]) =>
                      \E w \in last'.writes :
                         /\ w.cluster = myDatacenter
                         /\ w.node = n
                         /\ w.drain
       /\ (BackgroundStep /\ \E w \in last'.writes : ~w.ok) =>
             /\ last'.drainErr
             /\ amDrained' = amDrained
             /\ Cardinality({w \in last'.writes : ~w.ok}) = 1
       /\ (BackgroundStep /\ last'.op = "hbRead" /\ last'.readOk
             /\ last'.names # myDatacenter /\ ~amDrained) =>
             last'.drainCalled
       /\ (BackgroundStep /\ last'.op = "hbPut" /\ last'.put = "failed"
             /\ last'.failures >= MaxFailures /\ ~amDrained) =>
             last'.drainCalled]_vars

\* a tick for the record of a peer has drained the local datacenter after
\* an earlier drain attempt of the instance had failed at a node
C40_Witness ==
    /\ last.op = "hbRead"
    /\ last.drainCalled
    /\ ~last.drainErr
    /\ last.writes # {}
    /\ amDrained
    /\ nfaults = 1

=============================================================================
